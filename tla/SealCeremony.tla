---------------------------- MODULE SealCeremony ----------------------------
(***************************************************************************)
(* The unseal ceremony: the holders of the shares call unseal() in turn,   *)
(* over and over while status() reports the vault sealed.  Until things    *)
(* calm down somebody sends shares out of turn, seals the vault or         *)
(* restarts it, as often as they like.  SealManager (module Seal) has no   *)
(* memory of who sent a share, so its progress can be spoilt at any time;  *)
(* it recovers because it is dropped whenever the threshold is reached     *)
(* without the key.                                                        *)
(***************************************************************************)
EXTENDS Seal

VARIABLES
    turn,   \* the holder whose turn it is, 1 .. totalShares
    since,  \* history: the shares (numbers) that what was sent since the vault
            \* was last sealed is made of
    calm    \* nobody but the holders sends, seals or restarts any more

ceremonyVars == <<vars, turn, since, calm>>

CeremonyInit ==
    /\ Init
    /\ turn = 1
    /\ since = {}
    /\ calm = FALSE

Start(n, t) ==
    /\ Initialize(n, t)
    /\ UNCHANGED <<turn, since, calm>>

(* One unseal() request that carries s. *)
Send(s) ==
    /\ ProvideUnsealShare(s)
    /\ since' = IF initialized /\ sealed
                THEN since \cup MadeOf(s, totalShares) ELSE since

HolderSends ==
    /\ initialized
    /\ sealed
    /\ Send(Share(turn, totalShares))
    /\ turn' = (turn % totalShares) + 1
    /\ UNCHANGED calm

Disturb ==
    /\ ~calm
    /\ UNCHANGED <<turn, calm>>
    /\ \/ \E s \in Offered : Send(s)
       \/ (SealVault \/ Reload) /\ since' = {}

CalmsDown ==
    /\ ~calm
    /\ calm' = TRUE
    /\ UNCHANGED <<vars, turn, since>>

Request == RequireUnsealed /\ UNCHANGED <<turn, since, calm>>

CeremonyNext ==
    \/ \E c \in Configs : Start(c[1], c[2])
    \/ HolderSends
    \/ Disturb
    \/ CalmsDown
    \/ Request

CeremonySpec ==
    /\ CeremonyInit
    /\ [][CeremonyNext]_ceremonyVars
    /\ WF_ceremonyVars(HolderSends)

-----------------------------------------------------------------------------
(* seal() and a restart void the shares already given: an open vault was
   opened with shares all of which were sent, alone or combined with others,
   after it was last sealed. *)
NoStaleShare == ~sealed => 1 .. totalShares \subseteq since

(* When the threshold is the number of shares, the ceremony opens the vault
   once the disturbances end, whatever stray, repeated or foreign shares they
   left in the progress and wherever they left the holders' turn. *)
CeremonySucceeds ==
    (calm /\ initialized /\ threshold = totalShares) ~> ~sealed

=============================================================================
