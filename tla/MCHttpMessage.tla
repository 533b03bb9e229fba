--------------------------- MODULE MCHttpMessage ---------------------------
(* Instances of HttpMessage for TLC.                                       *)
EXTENDS HttpMessage

Ok == [head |-> 1, body |-> 2, kind |-> "success"]
NoContent == [head |-> 2, body |-> 0, kind |-> "success"]
NotFound == [head |-> 2, body |-> 1, kind |-> "error"]
Unsupported == [head |-> 1, body |-> 1, kind |-> "unsupported"]

AllResponses == {Ok, NoContent, NotFound, Unsupported}
GoodResponses == {Ok}
=============================================================================
