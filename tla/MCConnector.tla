---------------------------- MODULE MCConnector ----------------------------
(* Small instances of Connector for TLC; requests are numbered. *)
EXTENDS Connector

Workload(prompt, may) == [prompt |-> prompt, may |-> may]

\* Requests served as the project configures the engine: less than a chunk, one
\* complete chunk, and a prompt of two steps, too long for the staging buffer.
\* And two requests with everything the engine and the store may do.
AllWorkloads ==
  {Workload(<<1, 2, 4>>, {"finish_with_receipt"}), Workload(<<2, 4>>, EngineOptions)}

\* A single request: one complete chunk, or a prompt of two steps.
OneRequest == {Workload(<<2>>, {"finish_with_receipt"})}
OnePreemption == {Workload(<<4>>, {"preempt"})}
============================================================================
