---------------------------- MODULE MCTelemetry ----------------------------
(***************************************************************************)
(* Chunks of two tokens.  The source and the target share a chunk, the     *)
(* third request is the last turn of the Responses script, and two other   *)
(* clients send a prompt below a chunk and one beyond a step's capacity.   *)
(***************************************************************************)
EXTENDS Capture

MCRequests == {"source", "target", "third", "short", "long"}
MCPromptTokens == [source |-> 2, target |-> 3, third |-> 4, short |-> 1, long |-> 6]
MCScripts == [cacheblend |-> <<"source", "target">>,
              full |-> <<"target">>,
              warm |-> <<"source", "target">>,
              responses |-> <<"source", "target", "third">>]
MCCached == {"target", "long"}
MCOthers == {"short", "long"}
=============================================================================
