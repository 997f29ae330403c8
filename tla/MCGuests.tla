------------------------------ MODULE MCGuests ------------------------------
(* What guests order and follow online, and the providers they pay with, for *)
(* TLC: a behaviour of the run is one of Delivery, of Tracking or of         *)
(* BranchSettings, the `desk`.                                               *)
EXTENDS Delivery, Tracking, BranchSettings, TLC

CONSTANTS g1, o1, o2, d1, d2, ri1, ri2, b1, b2, c1, c2

VARIABLE desk

MCGroupOf == [o \in Order |-> g1]

(* A page that describes its provider as the one webhook or the other asks; left out, it is a bare name. *)
MCDescriptions == { [type |-> "webhook", method |-> m] : m \in {"hmac-sha512", "rsa"} }

GuestsInit ==
  /\ desk \in {"delivery", "tracking", "settings"}
  /\ Init /\ TrackInit /\ SettingsInit

GuestsNext ==
  /\ UNCHANGED desk
  /\ \/ desk = "delivery" /\ Next /\ UNCHANGED <<trackVars, settingsVars>>
     \/ desk = "tracking" /\ TrackNext /\ UNCHANGED <<vars, settingsVars>>
     \/ desk = "settings" /\ SettingsNext /\ UNCHANGED <<vars, trackVars>>

GuestsSpec == GuestsInit /\ [][GuestsNext]_<<desk, vars, trackVars, settingsVars>>

(* The configuration names the rows of the others like those of Delivery. *)
Symmetry ==
  Permutations(Order) \cup Permutations(DeliveryId) \cup Permutations(Rider)
    \cup Permutations(BatchId) \cup Permutations(Call)

=============================================================================
