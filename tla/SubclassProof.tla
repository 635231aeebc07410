---------------------------- MODULE SubclassProof ----------------------------
(***************************************************************************)
(* A subclass uses its transport as BulkOnly asks of a user, so that what  *)
(* is proved of the transport holds of the device.  The invariant says     *)
(* what the test that opens poll_command still guarantees at any later     *)
(* point of the callback.                                                  *)
(***************************************************************************)
EXTENDS Subclass, BulkOnlyProof

\* The states in which the user is called.
UserStates ==
  {"DataTransferToHost", "DataTransferFromHost", "DataTransferNoData",
   "DataTransferStatusAwait", "DataTransferFromHostStatusAwait"}

\* The callback runs for a command without a status, until it sets one.
SubInv ==
  /\ IInv
  /\ pc \in {"loop", "callback", "answered"}
  /\ pc = "callback" => has_command(bbb) /\ ~has_status(bbb)
  /\ pc = "answered" => bbb.state \in UserStates /\ has_status(bbb)

\* A step that keeps the status and the state keeps the callback's command.
LEMMA SameCommand ==
  ASSUME NEW t, NEW u, u.cs = t.cs, u.state = t.state
  PROVE  (has_command(t) <=> has_command(u)) /\ (has_status(t) <=> has_status(u))
BY DEF has_command, has_status

\* Without a status a command waits for the user.
LEMMA CallbackState ==
  ASSUME NEW t, Inv(t), has_command(t), ~has_status(t)
  PROVE  t.state \in UserStates
<1>1. t.state \in State /\ Phase(t)
  BY DEF Inv, Sane, TransportType
<1> QED
  BY <1>1 DEF Phase, State, UserStates, has_command

\* Every step of the device is a step of the transport or leaves it alone.
LEMMA StepImplements == SubInv /\ [SubNext]_subVars => [Next]_vars
<1> SUFFICES ASSUME SubInv, [SubNext]_subVars
             PROVE  [Next]_vars
  OBVIOUS
<1>1. CASE poll_command \/ callback_err \/ UNCHANGED subVars
  BY <1>1 DEF poll_command, callback_err, subVars, vars
<1>2. CASE callback_ok \/ class_poll
  BY <1>2 DEF callback_ok, class_poll, Next
<1>3. ASSUME NEW n \in ReadSizes, Command_read_data(n)
      PROVE  Next
  BY <1>3 DEF Command_read_data, Next
<1>4. ASSUME NEW src \in Chunks, Command_write_data(src) \/ Command_try_write_data_all(src)
      PROVE  Next
  BY <1>4 DEF Command_write_data, Command_try_write_data_all, Next
<1>5. ASSUME NEW s \in CommandStatus, NEW n \in Processed, Answer(s, n)
      PROVE  Next
  <2>1. SetStatus(s, n)
    BY <1>5 DEF Answer, SetStatus, SubInv
  <2> QED
    BY <2>1 DEF Next
<1>6. CASE (\E n \in Processed : pass(n) \/ fail(n)) \/ fail_phase
  BY <1>5, <1>6, FailPhaseAssumption DEF pass, fail, fail_phase, CommandStatus
<1>7. CASE class_reset \/ class_control_in
  BY <1>7 DEF class_reset, class_control_in, Next
<1>8. CASE Host
  BY <1>8 DEF Host, Next
<1> QED
  BY <1>1, <1>2, <1>3, <1>4, <1>6, <1>7, <1>8, SMTT(30) DEF SubNext

\* While the callback runs no step takes the command away or gives it a status
\* but the callback's own answer.
LEMMA StepKeepsSubInv == SubInv /\ [SubNext]_subVars => SubInv'
<1> SUFFICES ASSUME SubInv, [SubNext]_subVars
             PROVE  SubInv'
  OBVIOUS
<1>1. IInv'
  BY StepImplements, NextInv DEF SubInv, IInv
<1>2. Inv(bbb)
  BY DEF SubInv, IInv
<1>3. CASE poll_command \/ UNCHANGED subVars
  BY <1>1, <1>3 DEF poll_command, subVars, SubInv, has_command, has_status
<1>4. CASE callback_ok \/ callback_err \/ class_poll \/ class_reset \/ class_control_in
  BY <1>1, <1>4 DEF callback_ok, callback_err, class_poll, class_reset, class_control_in, SubInv
<1>5. ASSUME NEW s \in CommandStatus, NEW n, Answer(s, n)
      PROVE  SubInv'
  <2>1. bbb.state \in UserStates /\ bbb \in TransportType
    BY <1>2, <1>5, CallbackState, ZenonT(30) DEF Answer, SubInv, Inv, Sane
  <2>2. bbb'.state = bbb.state /\ bbb'.cs.status = s
    BY <1>5, <2>1 DEF Answer, set_status, UserStates, TransportType
  <2> QED
    BY <1>1, <1>5, <2>1, <2>2 DEF Answer, SubInv, has_status, CommandStatus
<1>6. ASSUME pc' = pc, bbb'.cs = bbb.cs, bbb'.state = bbb.state
      PROVE  SubInv'
  <2>1. (has_command(bbb) <=> has_command(bbb')) /\ (has_status(bbb) <=> has_status(bbb'))
    BY <1>6, SameCommand
  <2> QED
    BY <1>1, <1>6, <2>1 DEF SubInv, has_command, has_status
<1>7. ASSUME NEW n \in ReadSizes, Command_read_data(n)
      PROVE  SubInv'
  BY <1>2, <1>6, <1>7, ReadDataKeeps, EnvironmentAssumption
     DEF Command_read_data, UserRead, Framed, Kept
<1>8. ASSUME NEW src \in Chunks, Command_write_data(src)
      PROVE  SubInv'
  BY <1>2, <1>6, <1>8, WriteDataKeeps, EnvironmentAssumption
     DEF Command_write_data, UserWrite, Framed, Kept
<1>9. ASSUME NEW src \in Chunks, Command_try_write_data_all(src)
      PROVE  SubInv'
  BY <1>2, <1>6, <1>9, WriteAllKeeps, EnvironmentAssumption
     DEF Command_try_write_data_all, UserWriteAll, Framed, Kept
<1>10. CASE Host
  BY <1>2, <1>6, <1>10, HostSteps DEF Host, OnlyEndpoints, Kept
<1> QED
  BY <1>3, <1>4, <1>5, <1>7, <1>8, <1>9, <1>10, SMTT(60)
     DEF SubNext, pass, fail, fail_phase, CommandStatus

\* SubInv holds in every state of the device.
THEOREM SubInvariant == SubSpec => []SubInv
<1>1. SubInit => SubInv
  BY InitInv DEF SubInit, SubInv, IInv
<1> QED
  BY <1>1, StepKeepsSubInv, PTL DEF SubSpec

\* The device, whatever its callback does, implements the transport's specification;
\* the theorems of BulkOnlyProof are therefore theorems about it.
THEOREM DeviceImplementsTransport == SubSpec => ImplementsTransport
<1>1. SubInit => Init
  BY DEF SubInit
<1> QED
  BY <1>1, StepImplements, SubInvariant, PTL DEF SubSpec, ImplementsTransport, Spec

\* The callback is called, and stays, in a state in which set_status may be called.
THEOREM CallbacksAreNeeded == SubSpec => []CallbackIsNeeded
<1>1. SubInv => CallbackIsNeeded
  BY CallbackState DEF SubInv, IInv, UserStates, CallbackIsNeeded
<1> QED
  BY <1>1, SubInvariant, PTL

\* Only a poll that finds the CSW sent replaces a command.
LEMMA NextKeepsCommand ==
  ASSUME Inv(bbb), [Next]_vars, has_command(bbb)
  PROVE  bbb'.cbw = bbb.cbw \/ (bbb.state = "StatusTransfer" /\ bbb.buf = <<>>)
<1>0. bbb \in TransportType
  BY DEF Inv, Sane
<1>1. CASE Poll
  BY <1>1, PollKeeps DEF Poll, Kept, has_command
<1>2. ASSUME NEW s \in CommandStatus, NEW n \in Processed, SetStatus(s, n)
      PROVE  bbb'.cbw = bbb.cbw
  BY <1>0, <1>2 DEF SetStatus, set_status, panic, TransportType
<1>3. ASSUME NEW n \in ReadSizes, UserRead(n)
      PROVE  bbb'.cbw = bbb.cbw
  BY <1>3, ReadDataKeeps, EnvironmentAssumption DEF UserRead, Framed, Kept
<1>4. ASSUME NEW src \in Chunks, UserWrite(src)
      PROVE  bbb'.cbw = bbb.cbw
  BY <1>4, WriteDataKeeps, EnvironmentAssumption DEF UserWrite, Framed, Kept
<1>5. ASSUME NEW src \in Chunks, UserWriteAll(src)
      PROVE  bbb'.cbw = bbb.cbw
  BY <1>5, WriteAllKeeps, EnvironmentAssumption DEF UserWriteAll, Framed, Kept
<1>6. CASE \/ \E p \in OutPackets : HostSend(p)
           \/ HostReceive \/ HostClearInHalt \/ HostClearOutHalt
  BY <1>6, HostSteps DEF OnlyEndpoints, Kept
<1>7. CASE ControlInReset \/ BusReset
  BY <1>0, <1>7, ZenonT(30) DEF ControlInReset, BusReset, reset, enter_state_command_transfer, TransportType
<1>8. CASE UNCHANGED vars
  BY <1>8 DEF vars
<1> QED
  BY <1>1, <1>2, <1>3, <1>4, <1>5, <1>6, <1>7, <1>8 DEF Next

\* The command the callback is given is the transport's until its CSW is out.
THEOREM CommandsAreStable == SubSpec => CommandIsStable
<1> DEFINE A == has_command(bbb) /\ bbb'.cbw # bbb.cbw =>
                  bbb.state = "StatusTransfer" /\ bbb.buf = <<>>
<1>1. SubInv /\ [SubNext]_subVars => [A]_subVars
  BY StepImplements, NextKeepsCommand DEF SubInv, IInv
<1> QED
  BY <1>1, SubInvariant, PTL DEF SubSpec, CommandIsStable

\* A poll with all data transferred and the status set starts the status phase.
LEMMA PollAnswers ==
  ASSUME NEW t, Inv(t), t.state \in UserStates, has_status(t), t.left_to_transfer = 0
  PROVE  poll(t).state = "StatusTransfer"
<1>1. t.state = "DataTransferToHost" => assert_buffer_len_not_exceeding(t)
  BY DEF Inv, Phase, UserStates, assert_buffer_len_not_exceeding
<1>2. Sane(t) /\ Quiet(t)
  BY DEF Inv, Phase, UserStates
<1>3. CASE t.state = "DataTransferToHost"
  <2>1. poll(t) = handle_data_transfer_status_await([t EXCEPT !.state = "DataTransferStatusAwait"])
    BY <1>1, <1>3 DEF poll, handle_data_transfer_to_host
  <2> QED
    BY <1>2, <2>1, EnterStatusAwait, ZenonT(30)
<1>4. CASE t.state = "DataTransferFromHost"
  <2>1. poll(t) =
          handle_data_transfer_status_await([t EXCEPT !.state = "DataTransferFromHostStatusAwait"])
    BY <1>4 DEF poll, handle_data_transfer_from_host
  <2> QED
    BY <1>2, <2>1, EnterStatusAwait, ZenonT(30)
<1>5. CASE t.state = "DataTransferNoData"
  <2>1. poll(t) = handle_data_transfer_status_await([t EXCEPT !.state = "DataTransferStatusAwait"])
    BY <1>5 DEF poll, handle_data_transfer_no_data
  <2> QED
    BY <1>2, <2>1, EnterStatusAwait, ZenonT(30)
<1>6. CASE t.state \in {"DataTransferStatusAwait", "DataTransferFromHostStatusAwait"}
  <2>1. poll(t) = handle_data_transfer_status_await(t)
    BY <1>6 DEF poll
  <2> QED
    BY <1>2, <1>6, <2>1, StatusAwait
<1> QED
  BY <1>3, <1>4, <1>5, <1>6 DEF UserStates

\* poll_command itself starts the status phase of a command without data left.
THEOREM AnswersAtOnce == SubSpec => AnsweredAtOnce
<1> DEFINE A == callback_ok /\ pc = "answered" /\ bbb.left_to_transfer = 0 =>
                  bbb'.state = "StatusTransfer"
<1>1. SubInv /\ [SubNext]_subVars => [A]_subVars
  BY PollAnswers DEF SubInv, IInv, callback_ok, Poll
<1> QED
  BY <1>1, SubInvariant, PTL DEF SubSpec, AnsweredAtOnce
=============================================================================
