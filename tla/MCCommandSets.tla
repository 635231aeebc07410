---------------------------- MODULE MCCommandSets ----------------------------
(***************************************************************************)
(* Samples of every command: fields at the limits of their width, and      *)
(* values whose bytes all differ, so that a byte taken from the wrong      *)
(* place shows.  lba and 32-bit lengths stay below 2^31, TLC's limit.      *)
(***************************************************************************)
EXTENDS CommandSets

\* 0x01020304 and 0x7fffffff; 0x0506 and 0xffff
U64s == {0, 16909060, 2147483647}
U32s == {1, 84281096, 2147483647}
U16s == {0, 1, 1286, 65535}
U8s == {0, 9, 255}

MCScsiSamples ==
  [kind : {"TestUnitReady", "ReadCapacity10"}]
    \cup [kind : {"Inquiry"}, evpd : BOOLEAN, page_code : U8s, alloc_len : U16s]
    \cup [kind : {"RequestSense"}, desc : BOOLEAN, alloc_len : U8s]
    \cup [kind : {"ReadCapacity16"}, alloc_len : U32s]
    \cup [kind : {"Read", "Write"}, lba : U64s, len : U16s \cup U32s]
    \cup [kind : {"ModeSense6"}, dbd : BOOLEAN, page_control : PageControls,
          page_code : {0, 63}, subpage_code : U8s, alloc_len : U8s]
    \cup [kind : {"ModeSense10"}, dbd : BOOLEAN, page_control : PageControls,
          page_code : {0, 63}, subpage_code : U8s, alloc_len : U16s]
    \cup [kind : {"ReadFormatCapacities"}, alloc_len : U16s]

MCUfiSamples ==
  [kind : {"TestUnitReady", "ReadCapacity", "RezeroUnit"}]
    \cup [kind : {"RequestSense", "Inquiry"}, alloc_len : U8s]
    \cup [kind : {"PreventAllowMediumRemoval"}, prevent : BOOLEAN]
    \cup [kind : {"ModeSense"}, page_control : 0 .. 3, page_code : {0, 63}, param_list_len : U16s]
    \cup [kind : {"Read"}, lba : U64s, len : U16s \cup U32s]
    \cup [kind : {"Write"}, lba : U64s, len : U16s \cup U32s, verify : {FALSE}]
    \cup [kind : {"Write"}, lba : U64s, len : U16s, verify : {TRUE}]
    \cup [kind : {"FormatUnit"}, track : U8s, parameter_list_len : U16s]
    \cup [kind : {"ModeSelect"}, parameter_list_len : U16s]
    \cup [kind : {"ReadFormatCapacities"}, alloc_len : U16s]
    \cup [kind : {"Seek"}, lba : U64s]
    \cup [kind : {"SendDiagnostic"}, default : BOOLEAN]
    \cup [kind : {"StartStop"}, start : {TRUE}, eject : {FALSE}]
    \cup [kind : {"StartStop"}, start : {FALSE}, eject : BOOLEAN]
    \cup [kind : {"Verify"}, lba : U64s, len : U16s]
=============================================================================
