---------------------------- MODULE MCStreamRelay ---------------------------
(* The converters of the program as StreamRelay sees them.                 *)
EXTENDS StreamRelay

PassThrough == [buffered |-> FALSE, fails |-> FALSE, finalizer |-> "none"]
Converting == [buffered |-> TRUE, fails |-> TRUE, finalizer |-> "none"]
ResponsesToClaude == [buffered |-> TRUE, fails |-> FALSE, finalizer |-> "once"]
ChatToClaude == [buffered |-> TRUE, fails |-> TRUE, finalizer |-> "always"]

AllKinds == {PassThrough, Converting, ResponsesToClaude, ChatToClaude}
ChatOnly == {ChatToClaude}
=============================================================================
