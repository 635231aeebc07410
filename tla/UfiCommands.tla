----------------------------- MODULE UfiCommands -----------------------------
(***************************************************************************)
(* subclass/ufi.rs: the UFI commands and parse_cb, which reads one out of  *)
(* a command block.  It does not look at the length of the block: every    *)
(* index it takes must be within it.                                       *)
(***************************************************************************)
EXTENDS CommandBlocks

TEST_UNIT_READY == 0
REZERO_UNIT == 1
REQUEST_SENSE == 3
FORMAT_UNIT == 4
INQUIRY == 18
START_STOP == 27
SEND_DIAGNOSTIC == 29
PREVENT_ALLOW_MEDIUM_REMOVAL == 30
READ_FORMAT_CAPACITIES == 35
READ_CAPACITY == 37
READ_10 == 40
WRITE_10 == 42
SEEK_10 == 43
WRITE_AND_VERIFY == 46
VERIFY == 47
MODE_SELECT == 85
MODE_SENSE == 90
READ_12 == 168
WRITE_12 == 170

\* UfiCommand, without Unknown
UfiCommand ==
  [kind : {"TestUnitReady"}] \cup [kind : {"ReadCapacity"}] \cup [kind : {"RezeroUnit"}]
    \cup [kind : {"Inquiry"}, alloc_len : Byte]
    \cup [kind : {"RequestSense"}, alloc_len : Byte]
    \cup [kind : {"PreventAllowMediumRemoval"}, prevent : BOOLEAN]
    \cup [kind : {"ModeSense"}, page_control : 0 .. 3, page_code : U6, param_list_len : U16]
    \cup [kind : {"ModeSelect"}, parameter_list_len : U16]
    \cup [kind : {"FormatUnit"}, track : Byte, parameter_list_len : U16]
    \cup [kind : {"StartStop"}, start : BOOLEAN, eject : BOOLEAN]
    \cup [kind : {"Read"}, lba : U32, len : U32]
    \cup [kind : {"Write"}, lba : U32, len : U32, verify : BOOLEAN]
    \cup [kind : {"ReadFormatCapacities"}, alloc_len : U16]
    \cup [kind : {"Seek"}, lba : U32]
    \cup [kind : {"SendDiagnostic"}, default : BOOLEAN]
    \cup [kind : {"Verify"}, lba : U32, len : U16]

\* Broken on purpose: cb[1..=4] for cb[2..=5].
Write_Shifted(cb, len, verify) ==
  [kind |-> "Write", lba |-> u32_at(cb, 1), len |-> len, verify |-> verify]

Write(cb, len, verify) ==
  [kind |-> "Write", lba |-> u32_at(cb, 2), len |-> len, verify |-> verify]

parse_cb(cb) ==
  LET op == At(cb, 0) IN
  CASE op = REQUEST_SENSE -> Arm(cb, 4, [kind |-> "RequestSense", alloc_len |-> At(cb, 4)])
    [] op = INQUIRY -> Arm(cb, 4, [kind |-> "Inquiry", alloc_len |-> At(cb, 4)])
    [] op = TEST_UNIT_READY -> [kind |-> "TestUnitReady"]
    [] op = READ_CAPACITY -> [kind |-> "ReadCapacity"]
    [] op = PREVENT_ALLOW_MEDIUM_REMOVAL ->
         Arm(cb, 4, [kind |-> "PreventAllowMediumRemoval", prevent |-> At(cb, 4) # 0])
    [] op = MODE_SENSE ->
         Arm(cb, 8, [kind |-> "ModeSense", page_control |-> At(cb, 2) \div 64,
                     page_code |-> At(cb, 2) % 64, param_list_len |-> u16_at(cb, 7)])
    [] op = READ_10 -> Arm(cb, 8, [kind |-> "Read", lba |-> u32_at(cb, 2), len |-> u16_at(cb, 7)])
    [] op = READ_12 -> Arm(cb, 9, [kind |-> "Read", lba |-> u32_at(cb, 2), len |-> u32_at(cb, 6)])
    [] op = WRITE_10 -> Arm(cb, 8, Write(cb, u16_at(cb, 7), FALSE))
    [] op = WRITE_12 -> Arm(cb, 9, Write(cb, u32_at(cb, 6), FALSE))
    [] op = WRITE_AND_VERIFY -> Arm(cb, 8, Write(cb, u16_at(cb, 7), TRUE))
    [] op = FORMAT_UNIT ->
         Arm(cb, 8, [kind |-> "FormatUnit", track |-> At(cb, 2), parameter_list_len |-> u16_at(cb, 7)])
    [] op = MODE_SELECT -> Arm(cb, 8, [kind |-> "ModeSelect", parameter_list_len |-> u16_at(cb, 7)])
    [] op = READ_FORMAT_CAPACITIES ->
         Arm(cb, 8, [kind |-> "ReadFormatCapacities", alloc_len |-> u16_at(cb, 7)])
    [] op = REZERO_UNIT -> [kind |-> "RezeroUnit"]
    [] op = SEEK_10 -> Arm(cb, 5, [kind |-> "Seek", lba |-> u32_at(cb, 2)])
    [] op = SEND_DIAGNOSTIC -> Arm(cb, 1, [kind |-> "SendDiagnostic", default |-> Bit(At(cb, 1), 4)])
    [] op = START_STOP ->
         Arm(cb, 4, [kind |-> "StartStop", start |-> Bit(At(cb, 4), 1), eject |-> At(cb, 4) = 2])
    [] op = VERIFY -> Arm(cb, 8, [kind |-> "Verify", lba |-> u32_at(cb, 2), len |-> u16_at(cb, 7)])
    [] OTHER -> [kind |-> "Unknown"]

-----------------------------------------------------------------------------
(* The 12-byte layouts of the UFI specification, for the host. *)

Ufi10(op, lba, len) ==
  <<op, 0, B3(lba), B2(lba), B1(lba), B0(lba), 0, B1(len), B0(len), 0, 0, 0>>
Ufi12(op, lba, len) ==
  <<op, 0, B3(lba), B2(lba), B1(lba), B0(lba), B3(len), B2(len), B1(len), B0(len), 0, 0>>
Ufi6(op, byte1, byte4) == <<op, byte1, 0, 0, byte4, 0, 0, 0, 0, 0, 0, 0>>
UfiList(op, byte2, len) == <<op, 0, byte2, 0, 0, 0, 0, B1(len), B0(len), 0, 0, 0>>

UfiReads(c, op10, op12) ==
  {Ufi12(op12, c.lba, c.len)} \cup IF c.len < 65536 THEN {Ufi10(op10, c.lba, c.len)} ELSE {}

\* The commands the layouts have room for: the length of a WRITE AND VERIFY is a
\* u16, and a device is not asked to start and to eject at a time.
Expressible(c) ==
  /\ c.kind = "Write" => (c.verify => c.len < 65536)
  /\ c.kind = "StartStop" => ~(c.start /\ c.eject)

UfiBlocks(c) ==
  CASE c.kind = "RequestSense" -> {Ufi6(REQUEST_SENSE, 0, c.alloc_len)}
    [] c.kind = "Inquiry" -> {Ufi6(INQUIRY, 0, c.alloc_len)}
    [] c.kind = "TestUnitReady" -> {Ufi6(TEST_UNIT_READY, 0, 0)}
    [] c.kind = "ReadCapacity" -> {Ufi6(READ_CAPACITY, 0, 0)}
    [] c.kind = "PreventAllowMediumRemoval" ->
         {Ufi6(PREVENT_ALLOW_MEDIUM_REMOVAL, 0, Flag(c.prevent, 1))}
    [] c.kind = "ModeSense" ->
         {UfiList(MODE_SENSE, 64 * c.page_control + c.page_code, c.param_list_len)}
    [] c.kind = "Read" -> UfiReads(c, READ_10, READ_12)
    [] c.kind = "Write" /\ ~c.verify -> UfiReads(c, WRITE_10, WRITE_12)
    [] c.kind = "Write" /\ c.verify -> {Ufi10(WRITE_AND_VERIFY, c.lba, c.len)}
    [] c.kind = "FormatUnit" -> {UfiList(FORMAT_UNIT, c.track, c.parameter_list_len)}
    [] c.kind = "ModeSelect" -> {UfiList(MODE_SELECT, 0, c.parameter_list_len)}
    [] c.kind = "ReadFormatCapacities" -> {UfiList(READ_FORMAT_CAPACITIES, 0, c.alloc_len)}
    [] c.kind = "RezeroUnit" -> {Ufi6(REZERO_UNIT, 0, 0)}
    [] c.kind = "Seek" -> {Ufi10(SEEK_10, c.lba, 0)}
    [] c.kind = "SendDiagnostic" -> {Ufi6(SEND_DIAGNOSTIC, Flag(c.default, 4), 0)}
    [] c.kind = "StartStop" -> {Ufi6(START_STOP, 0, Flag(c.start, 1) + Flag(c.eject, 2))}
    [] c.kind = "Verify" -> {Ufi10(VERIFY, c.lba, c.len)}
=============================================================================
