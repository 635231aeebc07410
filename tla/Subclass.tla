------------------------------ MODULE Subclass ------------------------------
(***************************************************************************)
(* The SCSI and UFI subclasses over the Bulk Only Transport: poll_command, *)
(* the Command handle its callback gets, and the UsbClass methods.  The    *)
(* two subclasses differ in parse_cb only, which changes no state.         *)
(*                                                                         *)
(* The device has one loop, so a poll or a reset never comes while the     *)
(* callback runs; the host goes on using the endpoints.  The callback may  *)
(* be any code: any number of data calls, then a status or none, then Ok   *)
(* or an error.  pass, fail and fail_phase consume the Command.            *)
(***************************************************************************)
EXTENDS BulkOnly

\* fail_phase reports that nothing was processed.
ASSUME FailPhaseAssumption == 0 \in Processed

\* Where the loop is: outside poll_command, in the callback, or in the callback
\* after it has set a status.
VARIABLE pc

subVars == <<bbb, pc>>

SubInit == Init /\ pc = "loop"

-----------------------------------------------------------------------------
(* poll_command *)

\* Broken on purpose: the status is not looked at.
poll_command_NoStatusTest ==
  pc = "loop" /\ ~bbb.panicked /\ has_command(bbb) /\ pc' = "callback" /\ UNCHANGED bbb

\* "exec callback only if user action required"
poll_command ==
  /\ pc = "loop"
  /\ ~bbb.panicked
  /\ has_command(bbb)
  /\ ~has_status(bbb)
  /\ pc' = "callback"
  /\ UNCHANGED bbb

\* Broken on purpose: leaves the rest to the next UsbClass::poll.
callback_ok_NoPoll == pc \in {"callback", "answered"} /\ pc' = "loop" /\ UNCHANGED bbb

\* The callback returns Ok and poll_command polls the transport; or it returns an
\* error, and poll_command returns that.
callback_ok  == pc \in {"callback", "answered"} /\ pc' = "loop" /\ Poll
callback_err == pc \in {"callback", "answered"} /\ pc' = "loop" /\ UNCHANGED bbb

-----------------------------------------------------------------------------
(* Command *)

Command_read_data(size) == pc = "callback" /\ UserRead(size) /\ UNCHANGED pc

Command_write_data(src) == pc = "callback" /\ UserWrite(src) /\ UNCHANGED pc

Command_try_write_data_all(src) == pc = "callback" /\ UserWriteAll(src) /\ UNCHANGED pc

Answer(status, num_bytes_processed) ==
  /\ pc = "callback"
  /\ ~bbb.panicked
  /\ bbb' = set_status(bbb, status, num_bytes_processed)
  /\ pc' = "answered"

pass(num_bytes_processed) == Answer("Passed", num_bytes_processed)
fail(num_bytes_processed) == Answer("Failed", num_bytes_processed)
fail_phase == Answer("PhaseError", 0)

-----------------------------------------------------------------------------
(* UsbClass, called by UsbDevice::poll *)

class_poll == pc = "loop" /\ Poll /\ UNCHANGED pc
class_reset == pc = "loop" /\ BusReset /\ UNCHANGED pc
class_control_in == pc = "loop" /\ ControlInReset /\ UNCHANGED pc

Host ==
  /\ \/ \E p \in OutPackets : HostSend(p)
     \/ HostReceive
     \/ HostClearInHalt
     \/ HostClearOutHalt
  /\ UNCHANGED pc

SubNext ==
  \/ poll_command
  \/ callback_ok
  \/ callback_err
  \/ \E n \in ReadSizes : Command_read_data(n)
  \/ \E src \in Chunks : Command_write_data(src) \/ Command_try_write_data_all(src)
  \/ \E n \in Processed : pass(n) \/ fail(n)
  \/ fail_phase
  \/ class_poll
  \/ class_reset
  \/ class_control_in
  \/ Host

SubSpec == SubInit /\ [][SubNext]_subVars

-----------------------------------------------------------------------------
(* Properties *)

\* The subclass drives the transport within the rules BulkOnly assumes of its user:
\* in particular a status is set only for a command that has none.  With this,
\* every safety property of the transport is one of the device.
ImplementsTransport == Spec

\* The callback runs only for a command that waits for the user.  poll_command
\* tests the command and the status, never the state: that no other state passes
\* that test is what keeps set_status from panicking, whenever the callback
\* calls it and whatever the host does meanwhile.
CallbackIsNeeded ==
  pc = "callback" =>
    /\ ~has_status(bbb)
    /\ bbb.state \in {"DataTransferToHost", "DataTransferFromHost", "DataTransferNoData",
                      "DataTransferStatusAwait", "DataTransferFromHostStatusAwait"}

\* A command is not replaced under the user: the command block and the LUN the
\* callback was given, and the tag the CSW will carry, stay until the CSW is out.
CommandIsStable ==
  [][has_command(bbb) /\ bbb'.cbw # bbb.cbw =>
       bbb.state = "StatusTransfer" /\ bbb.buf = <<>>]_subVars

\* A command whose data has all been transferred is answered by poll_command itself:
\* when the callback has set the status, the CSW is on its way before the
\* next USB event.
AnsweredAtOnce ==
  [][callback_ok /\ pc = "answered" /\ bbb.left_to_transfer = 0 =>
       bbb'.state = "StatusTransfer"]_subVars
=============================================================================
