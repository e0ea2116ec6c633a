------------------------------ MODULE MCSgdmaDriver ------------------------------
(***************************************************************************)
(* Instances of SgdmaDriver for TLC.                                       *)
(***************************************************************************)
EXTENDS SgdmaDriver

\* Interrupts at the end of a chain and on an error, or for each descriptor.
ChainAndError == {"IE_ERROR", "IE_CHAIN_COMPLETED", "IE_GLOBAL"}
EachDescriptor == {"IE_DESC_COMPLETED", "IE_GLOBAL"}

Application(first, calls, call, control, failures) ==
  [first |-> first, calls |-> calls, callback |-> call, control |-> control,
   failures |-> failures]

\* Every call but polling; transfers whose callback starts the next one or
\* stops the engine; a chain that is polled and appended to.
CallsTransfersPolls ==
  {Application(<<>>, Calls \ {"poll_on", "append", "start"}, "none", EachDescriptor, TRUE),
   Application(<<"register">>, {"async"}, "async", ChainAndError, TRUE),
   Application(<<"register">>, {"async", "stop"}, "stop", ChainAndError, TRUE),
   Application(<<"poll_on", "async", "start">>, {"append"}, "none", EachDescriptor, FALSE)}
=============================================================================
