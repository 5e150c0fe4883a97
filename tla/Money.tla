------------------------------- MODULE Money --------------------------------
(***************************************************************************)
(* The arithmetic of internal/money: what a payer transfers for a top-up,  *)
(* what of it reaches the wallet, and when the holder of a bank account is *)
(* taken for the driver.  Amounts are in kobo, rates in basis points.      *)
(***************************************************************************)
EXTENDS Integers, FiniteSetsExt, SequencesExt

Whole == 10000   \* basis points in one

CollectionFee(paid, bps) ==
  IF paid <= 0 \/ bps <= 0 THEN 0 ELSE (paid * bps + Whole - 1) \div Whole

NetAfterFee(paid, bps) == paid - CollectionFee(paid, bps)

\* Mutant: the fee on the amount to be credited, not on the transfer.
GrossUpAddsFee(net, bps) == IF net <= 0 THEN 0 ELSE net + CollectionFee(net, bps)

\* The estimate, walked down while a kobo less is still enough and then up
\* until it is enough.
GrossUp(net, bps) ==
  IF net <= 0 THEN 0
  ELSE IF bps <= 0 THEN net
  ELSE LET estimate == (net * Whole + Whole - bps - 1) \div (Whole - bps)
           stops(g) == g <= net \/ NetAfterFee(g - 1, bps) < net
           down     == Max({g \in net .. estimate : stops(g)})
       IN  CHOOSE g \in down .. 2 * estimate :
             /\ NetAfterFee(g, bps) >= net
             /\ \A h \in down .. g - 1 : NetAfterFee(h, bps) < net

\* Names are sequences of parts, noise words left out; a part that the
\* registered name repeats counts every time.
NamesMatch(registered, holder) ==
  LET common == {i \in DOMAIN registered : registered[i] \in ToSet(holder)}
  IN  /\ registered # <<>> /\ holder # <<>>
      /\ Cardinality(common) >= IF Len(registered) = 1 THEN 1 ELSE 2

-----------------------------------------------------------------------------
(* The reference: what GrossUp's comment promises, the smallest transfer   *)
(* whose net covers the amount.                                            *)

LeastCovering(net, bps) ==
  CHOOSE g \in 0 .. net * Whole :
    /\ NetAfterFee(g, bps) >= net
    /\ \A h \in 0 .. g - 1 : NetAfterFee(h, bps) < net
=============================================================================
