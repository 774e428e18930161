------------------------------- MODULE MCALU -------------------------------
(***************************************************************************)
(* Instructions for TLC, of both formats, with the codes ALUSimulator      *)
(* knows and others; among the registers, LO, HI and zero.                 *)
(***************************************************************************)
EXTENDS ALU

MCFunctions == {\h00, \h02, \h03, \h04, \h06, \h10, \h12, \h18, \h19, \h1A, \h1B,
                \h20, \h22, \h24, \h25, \h26, \h2A, \h3F}
MCRType(rs, rt, rd, f) == ((rs * 32 + rt) * 32 + rd) * 2048 + 3 * 64 + f
MCIType(op, rs, rt, immediate) == ((op * 32 + rs) * 32 + rt) * 65536 + immediate
MCInstructions ==
  {MCRType(x[1], x[2], x[3], f) : x \in {<<4, 3, 1>>, <<1, 4, 4>>, <<31, 1, 30>>}, f \in MCFunctions}
    \union {MCIType(op, 4, 31, 200) : op \in {8, 10, 13}}
=============================================================================
