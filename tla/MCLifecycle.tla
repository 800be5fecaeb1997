---------------------------- MODULE MCLifecycle -----------------------------
(* The instance followed, and one peer whose image has one more migration;   *)
(* a hosted default repository and a group that has it as a member.          *)
EXTENDS Lifecycle

MCShips == [self |-> 2, peer |-> 3]
MCSeeds == <<"hosted", "public">>
MCMembers == [hosted |-> {}, public |-> {"hosted"}]
=============================================================================
