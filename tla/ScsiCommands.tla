---------------------------- MODULE ScsiCommands ----------------------------
(***************************************************************************)
(* subclass/scsi.rs: the SCSI commands and parse_cb, which reads one out   *)
(* of a command block.                                                     *)
(***************************************************************************)
EXTENDS CommandBlocks

CONSTANT extended_addressing  \* the Cargo feature

ASSUME FeatureAssumption == extended_addressing \in BOOLEAN

TEST_UNIT_READY == 0
REQUEST_SENSE == 3
INQUIRY == 18
MODE_SENSE_6 == 26
READ_FORMAT_CAPACITIES == 35
READ_CAPACITY_10 == 37
READ_10 == 40
WRITE_10 == 42
MODE_SENSE_10 == 90
READ_16 == 136
WRITE_16 == 138
READ_CAPACITY_16 == 158

PageControl == <<"CurrentValues", "ChangeableValues", "DefaultValues", "SavedValues">>
PageControls == {PageControl[i] : i \in 1 .. 4}

\* ScsiCommand, without Unknown
Lba == IF extended_addressing THEN U64 ELSE U32
BlockCount == IF extended_addressing THEN U32 ELSE U16
ScsiCommand ==
  [kind : {"TestUnitReady"}]
    \cup [kind : {"ReadCapacity10"}]
    \cup [kind : {"Inquiry"}, evpd : BOOLEAN, page_code : Byte, alloc_len : U16]
    \cup [kind : {"RequestSense"}, desc : BOOLEAN, alloc_len : Byte]
    \cup [kind : {"ReadCapacity16"}, alloc_len : U32]
    \cup [kind : {"Read"}, lba : Lba, len : BlockCount]
    \cup [kind : {"Write"}, lba : Lba, len : BlockCount]
    \cup [kind : {"ModeSense6"}, dbd : BOOLEAN, page_control : PageControls, page_code : U6,
          subpage_code : Byte, alloc_len : Byte]
    \cup [kind : {"ModeSense10"}, dbd : BOOLEAN, page_control : PageControls, page_code : U6,
          subpage_code : Byte, alloc_len : U16]
    \cup [kind : {"ReadFormatCapacities"}, alloc_len : U16]

\* page_control, page_code and so on, of either MODE SENSE.
ModeSense(kind, cb, alloc_len) ==
  [kind |-> kind, dbd |-> Bit(At(cb, 1), 8), page_control |-> PageControl[At(cb, 2) \div 64 + 1],
   page_code |-> At(cb, 2) % 64, subpage_code |-> At(cb, 3), alloc_len |-> alloc_len]

\* Broken on purpose: the guards admit a block that is one byte too short.
AtLeast_Short(cb, n) == Len(cb) >= n - 1

\* The pattern n.. on cb.len()
AtLeast(cb, n) == Len(cb) >= n

parse_cb(cb) ==
  LET op == At(cb, 0) IN
  CASE op = TEST_UNIT_READY -> [kind |-> "TestUnitReady"]
    [] op = INQUIRY /\ AtLeast(cb, 5) ->
         Arm(cb, 4, [kind |-> "Inquiry", evpd |-> Bit(At(cb, 1), 1), page_code |-> At(cb, 2),
                     alloc_len |-> u16_at(cb, 3)])
    [] op = REQUEST_SENSE /\ AtLeast(cb, 5) ->
         Arm(cb, 4, [kind |-> "RequestSense", desc |-> Bit(At(cb, 1), 1), alloc_len |-> At(cb, 4)])
    [] op = READ_CAPACITY_10 -> [kind |-> "ReadCapacity10"]
    [] op = READ_CAPACITY_16 /\ AtLeast(cb, 14) ->
         Arm(cb, 13, [kind |-> "ReadCapacity16", alloc_len |-> u32_at(cb, 10)])
    [] op = READ_10 /\ AtLeast(cb, 9) ->
         Arm(cb, 8, [kind |-> "Read", lba |-> u32_at(cb, 2), len |-> u16_at(cb, 7)])
    [] op = READ_16 /\ AtLeast(cb, 14) /\ extended_addressing ->
         Arm(cb, 13, [kind |-> "Read", lba |-> u64_at(cb, 2), len |-> u32_at(cb, 10)])
    [] op = WRITE_10 /\ AtLeast(cb, 9) ->
         Arm(cb, 8, [kind |-> "Write", lba |-> u32_at(cb, 2), len |-> u16_at(cb, 7)])
    [] op = WRITE_16 /\ AtLeast(cb, 14) /\ extended_addressing ->
         Arm(cb, 13, [kind |-> "Write", lba |-> u64_at(cb, 2), len |-> u32_at(cb, 10)])
    [] op = MODE_SENSE_6 /\ AtLeast(cb, 5) -> Arm(cb, 4, ModeSense("ModeSense6", cb, At(cb, 4)))
    [] op = MODE_SENSE_10 /\ AtLeast(cb, 9) -> Arm(cb, 8, ModeSense("ModeSense10", cb, u16_at(cb, 7)))
    [] op = READ_FORMAT_CAPACITIES /\ AtLeast(cb, 9) ->
         Arm(cb, 8, [kind |-> "ReadFormatCapacities", alloc_len |-> u16_at(cb, 7)])
    [] OTHER -> [kind |-> "Unknown", cmd |-> op]

-----------------------------------------------------------------------------
(* The layouts of SPC and SBC.  READ and WRITE have two, of which the host *)
(* uses one whose fields are wide enough.                                  *)

RW10(op, c) ==
  <<op, 0, B3(c.lba), B2(c.lba), B1(c.lba), B0(c.lba), 0, B1(c.len), B0(c.len), 0>>

RW16(op, c) ==
  LET high == (c.lba \div 65536) \div 65536 IN
  <<op, 0, B3(high), B2(high), B1(high), B0(high), B3(c.lba), B2(c.lba), B1(c.lba), B0(c.lba),
    B3(c.len), B2(c.len), B1(c.len), B0(c.len), 0, 0>>

FitsIn10(c) == c.lba \div 65536 < 65536 /\ c.len < 65536

\* Bytes 1 to 3 of both MODE SENSE commands.
Dbd(c) == Flag(c.dbd, 8)
Page(c) == 64 * ((CHOOSE i \in 1 .. 4 : PageControl[i] = c.page_control) - 1) + c.page_code

ScsiBlocks(c) ==
  CASE c.kind = "TestUnitReady" -> {<<TEST_UNIT_READY, 0, 0, 0, 0, 0>>}
    [] c.kind = "Inquiry" ->
         {<<INQUIRY, Flag(c.evpd, 1), c.page_code, B1(c.alloc_len), B0(c.alloc_len), 0>>}
    [] c.kind = "RequestSense" -> {<<REQUEST_SENSE, Flag(c.desc, 1), 0, 0, c.alloc_len, 0>>}
    [] c.kind = "ReadCapacity10" -> {<<READ_CAPACITY_10, 0, 0, 0, 0, 0, 0, 0, 0, 0>>}
    [] c.kind = "ReadCapacity16" ->
         {<<READ_CAPACITY_16, 16, 0, 0, 0, 0, 0, 0, 0, 0, B3(c.alloc_len), B2(c.alloc_len),
            B1(c.alloc_len), B0(c.alloc_len), 0, 0>>}
    [] c.kind = "Read" ->
         (IF FitsIn10(c) THEN {RW10(READ_10, c)} ELSE {})
           \cup (IF extended_addressing THEN {RW16(READ_16, c)} ELSE {})
    [] c.kind = "Write" ->
         (IF FitsIn10(c) THEN {RW10(WRITE_10, c)} ELSE {})
           \cup (IF extended_addressing THEN {RW16(WRITE_16, c)} ELSE {})
    [] c.kind = "ModeSense6" -> {<<MODE_SENSE_6, Dbd(c), Page(c), c.subpage_code, c.alloc_len, 0>>}
    [] c.kind = "ModeSense10" ->
         {<<MODE_SENSE_10, Dbd(c), Page(c), c.subpage_code, 0, 0, 0, B1(c.alloc_len),
            B0(c.alloc_len), 0>>}
    [] c.kind = "ReadFormatCapacities" ->
         {<<READ_FORMAT_CAPACITIES, 0, 0, 0, 0, 0, 0, B1(c.alloc_len), B0(c.alloc_len), 0>>}
=============================================================================
