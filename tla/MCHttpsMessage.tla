--------------------------- MODULE MCHttpsMessage ---------------------------
(* Instances of HttpsMessage for TLC.                                      *)
EXTENDS HttpsMessage

Ok == [head |-> 1, body |-> 2, kind |-> "success"]
NotFound == [head |-> 2, body |-> 1, kind |-> "error"]
Unsupported == [head |-> 1, body |-> 1, kind |-> "unsupported"]

AllResponses == {Ok, NotFound, Unsupported}
GoodResponses == {Ok}
=============================================================================
