---------------------------- MODULE MCHttpServer ----------------------------
(***************************************************************************)
(* Instances of the HTTP server for TLC, with the handler of webserver: a  *)
(* path with a page, one without, one whose handler throws.                *)
(***************************************************************************)
EXTENDS WebServer, TLC

CONSTANTS c1, c2, nopage, images

TwoConns == {c1, c2}
MCNames == {Index, nopage, images}
MCFile == Index :> "text" @@ nopage :> "empty" @@ images :> "directory"
MCPaths == {Root, nopage, images}
=============================================================================
