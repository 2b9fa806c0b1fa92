-------------------------- MODULE MCSdoClientOpen --------------------------
(* The SDO client alone, for TLC: one response for each branch of the      *)
(* handler and each value a branch tells apart; an entry is named only in  *)
(* the responses whose entry the handler looks at.                         *)
EXTENDS SdoClientOpen, TLC

Plain(codes, args) ==
  {SdoFrame(cs, NoMux, arg, NoChunk) : cs \in codes, arg \in args}
OfEntry(codes) == {SdoFrame(cs, m, 0, NoChunk) : cs \in codes, m \in Muxes}

MCResponses ==
  OfEntry({\h60, \h40, \h4B, \h43})
  \union Plain({\h20, \h30, \h80, \hC1, \hA1, \hFF}, {0})
  \union Plain({\hA0, \hA2}, {0, 2})
  \union Plain({\hC2}, {0, 29, 36})
  \union Plain({\h00, \h01, \h02, \h0D, \h10, \h11, \h82}, {0})

(* The entries are alike: only whether two of them are the same matters.   *)
Alike == Permutations(Muxes)
=============================================================================
