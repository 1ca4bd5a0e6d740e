----------------------------- MODULE MCLoadGates -----------------------------
(* Instances of LoadGates for TLC.                                           *)
EXTENDS LoadGates

Value(type, bytes, data) == [type |-> type, bytes |-> bytes, data |-> data]

\* One value of each kind the code tells apart: both DWORDs it ignores count as one.
KindsOfValues ==
  {Value("REG_DWORD", 4, 1), Value("REG_DWORD", 4, 2), Value("REG_BINARY", 4, 2),
   Value("REG_SZ", 12, 2)}

AllProcessors ==
  { {"CPUID", "MMX", "FXSR", "SSE", "SSE2"}, {"CPUID", "MMX"}, {} }
=============================================================================
