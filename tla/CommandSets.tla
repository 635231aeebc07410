----------------------------- MODULE CommandSets -----------------------------
(***************************************************************************)
(* The two parsers against the standards' layout of the command blocks.  A *)
(* host means some command, lays it out in a block and sends any number of *)
(* bytes of it: the block may be cut short, or be followed by padding.     *)
(***************************************************************************)
EXTENDS ScsiCommands

Ufi == INSTANCE UfiCommands

CONSTANTS ScsiSamples, UfiSamples  \* the commands the host means

ASSUME SamplesAssumption ==
  /\ \A c \in ScsiSamples : c \in ScsiCommand
  /\ \A c \in UfiSamples : c \in Ufi!UfiCommand /\ Ufi!Expressible(c)

VARIABLES set,       \* which command set the device implements
          command,   \* the command the host means
          block_len  \* bCBWCBLength

setsVars == <<set, command, block_len>>

-----------------------------------------------------------------------------

SetsInit ==
  /\ set = "scsi"
  /\ command \in ScsiSamples
  /\ block_len = MAX_CB_LEN

MeanScsi == set' = "scsi" /\ command' \in ScsiSamples /\ UNCHANGED block_len
MeanUfi == set' = "ufi" /\ command' \in UfiSamples /\ UNCHANGED block_len
Cut == block_len' \in MIN_CB_LEN .. MAX_CB_LEN /\ UNCHANGED <<set, command>>

SetsNext == MeanScsi \/ MeanUfi \/ Cut

SetsSpec == SetsInit /\ [][SetsNext]_setsVars

\* What get_command hands to parse_cb: the first block_len bytes of the block.
Bytes(cb) == Take(Padded(cb), block_len)

-----------------------------------------------------------------------------


\* A block cut short is never misread and never makes scsi::parse_cb index beyond
\* its end: it is Unknown, or what is missing does not matter.
ScsiCutBlocks ==
  set = "scsi" =>
    \A cb \in ScsiBlocks(command) :
      parse_cb(Bytes(cb)) \in {command, [kind |-> "Unknown", cmd |-> At(cb, 0)]}

\* ufi::parse_cb, which checks no length, reads every command out of the 12 bytes
\* every UFI block has, and so never indexes beyond them.
UfiRoundTrip ==
  set = "ufi" =>
    \A cb \in Ufi!UfiBlocks(command) : block_len >= Len(cb) => Ufi!parse_cb(Bytes(cb)) = command
=============================================================================
