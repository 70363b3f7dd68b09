---------------------------- MODULE UpdateOffer ----------------------------
(***************************************************************************)
(* What the update service promises the operator, with no word of markers, *)
(* directories, downloads or crashes.  One build at most is on offer.  It  *)
(* is signed by a key of the device and whole when it is first offered, and *)
(* its timestamp is newer than what runs.  What gets into the other slot is *)
(* signed and was on offer after the menu opened; only a reboot changes    *)
(* what runs.                                                              *)
(*                                                                         *)
(* If the server only moves Forward, an offer is a build under its own     *)
(* timestamp, and what is shown and installed is not older than what runs. *)
(* If a withdrawn offer is moreover gone (Clean), the content of an offer  *)
(* never comes back unverified once it has been taken away, and an offer    *)
(* gives way only to a newer one.  Otherwise it may: see Refetch.          *)
(* Module Updater implements this (KeepsPromise).                          *)
(***************************************************************************)
EXTENDS Integers

CONSTANTS
  Stamps,         \* the timestamps of a build: positive numbers
  Trusted,        \* the builds signed for this device, named by their timestamps
  Forward,        \* the published timestamp never steps back, nor names an old build
  Clean           \* an offer that is withdrawn is gone

VARIABLES
  offer,          \* what an operator who taps now would install
  shown,          \* the timestamp in the open menu, 0 when there is none
  taken,          \* the build that is about to be installed, 0 when there is none
  local, other    \* the builds of the running slot and of the other one

vars == <<offer, shown, taken, local, other>>

Nothing == [stamp |-> 0, build |-> 0, content |-> "absent"]

Init == offer = Nothing /\ shown = 0 /\ taken = 0 /\ local = 0 /\ other = 0

Offer ==
  /\ \E r \in Trusted, s \in Stamps :
       /\ s > local /\ s >= r
       /\ Forward => s = r /\ s >= offer.stamp
       /\ Forward /\ Clean => s > offer.stamp
       /\ offer' = [stamp |-> s, build |-> r, content |-> "good"]
  /\ UNCHANGED <<shown, taken, local, other>>

Withdraw ==
  /\ offer' = Nothing
  /\ UNCHANGED <<shown, taken, local, other>>

\* The file is taken away while the offer stands.
Lapse ==
  /\ offer' = [offer EXCEPT !.content = "absent"]
  /\ UNCHANGED <<shown, taken, local, other>>

\* The file is fetched once more while the offer stands, and not yet verified.
Refetch ==
  /\ ~(Forward /\ Clean)
  /\ offer.build # 0
  /\ \E c \in {"good", "corrupt"} : offer' = [offer EXCEPT !.content = c]
  /\ UNCHANGED <<shown, taken, local, other>>

Show ==
  /\ offer.build # 0
  /\ Forward => offer.stamp >= local
  /\ shown' = offer.stamp
  /\ UNCHANGED <<offer, taken, local, other>>

Take ==
  /\ shown # 0 /\ offer.build # 0
  /\ Forward => offer.build >= shown /\ offer.build >= local
  /\ taken' = offer.build
  /\ UNCHANGED <<offer, shown, local, other>>

Dismiss ==
  /\ shown' = 0 /\ taken' = 0
  /\ UNCHANGED <<offer, local, other>>

Install ==
  /\ taken \in Trusted
  /\ Forward => taken >= shown /\ taken >= local
  /\ other' = taken
  /\ shown' = 0 /\ taken' = 0
  /\ UNCHANGED <<offer, local>>

Reboot ==
  /\ shown' = 0 /\ taken' = 0
  /\ \/ UNCHANGED <<local, other>>
     \/ local' = other /\ other' = local
  /\ UNCHANGED offer

Next ==
  \/ Offer \/ Withdraw \/ Lapse \/ Refetch
  \/ Show \/ Take \/ Dismiss \/ Install \/ Reboot

Spec == Init /\ [][Next]_vars
=============================================================================
