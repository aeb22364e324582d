----------------------------- MODULE WebServer ------------------------------
(***************************************************************************)
(* The handler of the webserver: a path is the name of a file below www/,  *)
(* read whole and sent; a file that is not there or is empty is a 404.     *)
(***************************************************************************)
EXTENDS HttpServer

CONSTANTS
    Names,        \* names below www/
    File,         \* File[n]: "text", "empty", "missing" or "directory"
    Root, Index   \* the path "/" and the name that stands for it

ASSUME FileAssumption ==
    /\ File \in [Names -> {"text", "empty", "missing", "directory"}]
    /\ Index \in Names /\ Paths \subseteq Names \union {Root}

\* loadTextFile(): read() of a directory fails with -1, which is a huge number
\* for the unsigned len; append() throws then.
loadTextFile(file) == CASE file = "text"                -> "text"
                        [] file \in {"empty", "missing"} -> "nothing"
                        [] file = "directory"           -> "throws"

\* HTTPServerRequest(), whose result the server sends with the body.
HTTPServerRequest(path) ==
    LET body == loadTextFile(File[IF path = Root THEN Index ELSE path])
    IN  CASE body = "text" -> "200" [] body = "nothing" -> "404" [] body = "throws" -> "throws"

Handler == [p \in Paths |-> HTTPServerRequest(p)]
=============================================================================
