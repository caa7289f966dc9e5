------------------------------ MODULE MCProgram ------------------------------
(* A small instance of Program for TLC.                                    *)
EXTENDS Program

CONSTANTS get, post, p1, unknown

GetAndPost  == {get, post}
OnePost     == {post}
OneGet      == {get}
OneProvider == {p1}
AnyQuery    == {{}, {unknown}}
=============================================================================
