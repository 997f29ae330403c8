---------------------------- MODULE MCFrontDesk ----------------------------
(***************************************************************************)
(* The billing desk, the amounts of its bills, the printers and the         *)
(* credentials of the terminal provider, for TLC: a behaviour of the run is  *)
(* a behaviour of one of them, the `desk`.                                   *)
(***************************************************************************)
EXTENDS BillDesk, GuestBill, Printing, Credentials, TLC

CONSTANTS t1, tb1, p1

VARIABLE desk

TabKind == (t1 :> "dine_in")
TabTable == (t1 :> tb1)
OneRefAmount == (p1 :> 1)

(* Of the ways a component may begin, one is enough while it rests. *)
FrontInit ==
  /\ desk \in {"bills", "amounts", "printing", "credentials"}
  /\ DeskInit /\ GuestInit /\ PrintInit /\ CredentialInit
  /\ desk # "amounts" => kind = "dine_in" /\ rates = CHOOSE r \in Rates : TRUE

FrontNext ==
  /\ UNCHANGED desk
  /\ \/ desk = "bills" /\ DeskNext /\ UNCHANGED <<guestVars, printVars, credentialVars>>
     \/ desk = "amounts" /\ GuestNext /\ UNCHANGED <<deskVars, printVars, credentialVars>>
     \/ desk = "printing" /\ PrintNext /\ UNCHANGED <<deskVars, guestVars, credentialVars>>
     \/ desk = "credentials" /\ CredentialNext /\ UNCHANGED <<deskVars, guestVars, printVars>>

FrontSpec == FrontInit /\ [][FrontNext]_<<desk, deskVars, guestVars, printVars, credentialVars>>

(* All rows, calls and histories have their types. *)
FrontTypesOK == DeskTypeOK /\ GuestTypeOK /\ PrintTypeOK /\ CredentialTypeOK

(* The configuration names requests, editors and other pairs alike. *)
Symmetry == Permutations(Request) \cup Permutations(Editor)

=============================================================================
