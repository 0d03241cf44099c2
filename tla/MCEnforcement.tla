--------------------------- MODULE MCEnforcement ---------------------------
(* Values for the constants of Enforcement that a .cfg cannot write.        *)
EXTENDS Enforcement, TLC

CONSTANTS alice, bob, deployer, anna, ben, a0, b0, b1

SomeMoney == alice :> 2 @@ bob :> 1 @@ deployer :> 0
NoMoney == [a \in Account |-> 0]

ProviderOfBatch == a0 :> anna @@ b0 :> ben @@ b1 :> ben
AddressesOfBen == anna :> {} @@ ben :> {alice, bob}

(* About one subject b0 and b1 agree with a0, with each other, with both or  *)
(* with neither, or b1 is silent; about the other a0 and b0 agree or are     *)
(* silent, so that two batches may agree and contradict each other at once.  *)
ClaimsOnTwoSubjects ==
  {c \in Claims : /\ c[a0]["failures"] = 1
                  /\ c[b0]["failures"] # NoClaim
                  /\ c[a0]["cost"] = c[b0]["cost"]
                  /\ c[a0]["cost"] = NoClaim \/ (c[a0]["cost"] = 1 /\ c[b0]["failures"] = 3)
                  /\ c[b1]["cost"] = NoClaim}

AllClaims == Claims
=============================================================================
