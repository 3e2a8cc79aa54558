--------------------------- MODULE MCTraceIngest ---------------------------
(***************************************************************************)
(* Two processes ingest a session that calls one tool and is finalized, as *)
(* often as its events allow, from its transcript or its hook log, and a   *)
(* transcript imported without a group id.  Transcripts are untimed, so    *)
(* two that tell the same share their spans, or share the root only.  In   *)
(* TwinScripts the agent calls a tool twice over before the results come.  *)
(***************************************************************************)
EXTENDS TraceIngest

CONSTANTS s1, s2, hello, lookup, reply, call1, call2

Block(kind, seed, call) == [kind |-> kind, seed |-> seed, call |-> call]

Greeting == Block("user", hello, call1)

OneCall  == <<Greeting, Block("tool_use", lookup, call1)>>
Remark   == <<Block("assistant", reply, call1)>>
TwoCalls == <<Block("tool_use", lookup, call1), Block("tool_use", lookup, call2),
              Block("tool_result", lookup, call1), Block("tool_result", lookup, call2)>>

MCMaxEvents == [s \in {s1, s2} |-> IF s = s1 THEN 3 ELSE 0]

MCImports == {<<s2, Ungrouped>>}

MCScripts   == {OneCall, Remark}
TwinScripts == {OneCall, TwoCalls}

=============================================================================
