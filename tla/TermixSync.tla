----------------------------- MODULE TermixSync -----------------------------
(***************************************************************************)
(* termix-netbox-sync.py with DRY_RUN=false: the CronJob that keeps        *)
(* Termix's SSH and RDP hosts as NetBox names them.  A run reads NetBox,   *)
(* then Termix, plans, writes host by host (counting the failures), turns  *)
(* RDP on by a call of its own, and reads Termix back.                     *)
(*                                                                         *)
(* A host is named by its object.  The hosts tagged "netbox" are in        *)
(* synced, those made by hand in byHand; both may have one of a name.      *)
(***************************************************************************)
EXTENDS NetBox, SequencesExt

CONSTANTS
    StartSynced,   \* the hosts Termix may start with
    StartByHand    \* the names of those made by hand

Credentials == {"bastion", "named"}
TxHost == [proto : {"absent", "ssh", "rdp"}, at : {"name", "ip"}, cred : Credentials,
           rdpOn : BOOLEAN,  \* the remote-desktop plugin's setting
           pin : BOOLEAN]    \* what the user set on it
NoHost == [proto |-> "absent", at |-> "ip", cred |-> "bastion", rdpOn |-> FALSE, pin |-> FALSE]

ASSUME TermixAssumption == StartSynced \subseteq [Objects -> TxHost] /\ StartByHand \subseteq SUBSET Objects

VARIABLES
    synced, byHand, creds,  \* Termix: see above, and the credentials it has
    tx,         \* the run: its next step, what it read and has to do
    undisturbed  \* nothing outside the run changed since it read NetBox

termixVars == <<synced, byHand, creds, tx, undisturbed>>

TxResting == [at |-> "idle", wanted |-> <<>>, have |-> <<>>, held |-> {}, clash |-> {}, todo |-> <<>>]

TermixInit ==
    /\ synced \in StartSynced /\ byHand \in StartByHand
    /\ creds = Credentials
    /\ tx = TxResting /\ undisturbed = FALSE

-----------------------------------------------------------------------------
AccessStatuses == {"active", "staged", "failed"}

\* Named for Termix: open to access, with a login tag and its username or
\* credential set, and an address; anything else is skipped.
Named == {o \in Objects : /\ obj[o].status \in AccessStatuses
                          /\ obj[o].login \in {"key", "named", "rdp"}
                          /\ \E a \in Addrs : addr[a].on = o}

Reached(o) == IF addr[CHOOSE a \in Addrs : addr[a].on = o].dns = "none" THEN "ip" ELSE "name"

WantedHosts ==
    [o \in Named |-> [proto |-> IF obj[o].login = "rdp" THEN "rdp" ELSE "ssh",
                      at |-> Reached(o),
                      cred |-> IF obj[o].login = "key" THEN "bastion" ELSE "named"]]

Held(wanted) == {o \in DOMAIN wanted : wanted[o].cred \notin creds}

Differs(have, want) == have.proto # want.proto \/ have.at # want.at \/ have.cred # want.cred
SettingsDiffer(have, want) == want.proto = "rdp" /\ ~have.rdpOn

TxPlan_DropsUpdates(wanted, held) ==
    LET mine == {o \in Objects : synced[o].proto # "absent"}
        sync == (DOMAIN wanted \ held) \ byHand
    IN  SetToSeq({<<"POST", o>> : o \in sync \ mine})
        \o SetToSeq({<<"DELETE", o>> : o \in mine \ DOMAIN wanted})

\* Creates what NetBox has new, updates what differs, deletes what left it;
\* held hosts and names made by hand are left as they are.  (RDP settings
\* alone are no write of the host.)
TxPlan(wanted, held) ==
    LET mine == {o \in Objects : synced[o].proto # "absent"}
        sync == (DOMAIN wanted \ held) \ byHand
    IN  SetToSeq({<<"POST", o>> : o \in sync \ mine})
        \o SetToSeq({<<"PUT", o>> : o \in {n \in sync \cap mine : Differs(synced[n], wanted[n])}})
        \o SetToSeq({<<"DELETE", o>> : o \in mine \ DOMAIN wanted})

\* NetBox unreadable or naming no host at all: the run ends (exit 2).
TxReadsNetBox ==
    /\ tx.at = "idle"
    /\ tx' = IF Named = {} THEN tx ELSE [TxResting EXCEPT !.at = "termix", !.wanted = WantedHosts]
    /\ undisturbed' = TRUE
    /\ UNCHANGED <<synced, byHand, creds>>

\* The RDP hosts to have whose setting is not on.
SettingsToDo(held, clash) ==
    {o \in (DOMAIN tx.wanted \ held) \ clash : SettingsDiffer(synced[o], tx.wanted[o])}

\* Without the bastion credential nothing is written (exit 2).
TxReadsTermix ==
    /\ tx.at = "termix"
    /\ LET held == Held(tx.wanted)
           plan == TxPlan(tx.wanted, held)
       IN  tx' = IF \/ "bastion" \notin creds
                    \/ plan = <<>> /\ SettingsToDo(held, byHand) = {}
                 THEN TxResting
                 ELSE [tx EXCEPT !.at = "write", !.have = synced, !.held = held, !.clash = byHand, !.todo = plan]
    /\ UNCHANGED <<synced, byHand, creds, undisturbed>>

\* An update starts from the host as it was read.
TxBody(o, rdpOn) ==
    [proto |-> tx.wanted[o].proto, at |-> tx.wanted[o].at, cred |-> tx.wanted[o].cred,
     rdpOn |-> rdpOn, pin |-> tx.have[o].pin]

TxWrites ==
    /\ tx.at = "write" /\ tx.todo # <<>>
    /\ LET verb == Head(tx.todo)[1]
           o == Head(tx.todo)[2]
       IN  synced' = [synced EXCEPT ![o] = CASE verb = "DELETE" -> NoHost
                                             [] verb = "POST" -> TxBody(o, tx.have[o].rdpOn)
                                             [] verb = "PUT" -> TxBody(o, @.rdpOn)]
    /\ tx' = [tx EXCEPT !.todo = Tail(@)]
    /\ UNCHANGED <<byHand, creds, undisturbed>>

TxWriteFails ==
    /\ tx.at = "write" /\ tx.todo # <<>> /\ Event
    /\ tx' = [tx EXCEPT !.todo = Tail(@)]
    /\ UNCHANGED <<synced, byHand, creds, undisturbed, tables, live>>

\* After the host writes, from a fresh list, RDP is turned on where the host
\* is there and its setting differs.
TxTurnsRdpOn ==
    /\ tx.at = "write" /\ tx.todo = <<>>
    /\ synced' = [o \in Objects |->
          IF o \in SettingsToDo(tx.held, tx.clash) /\ synced[o].proto # "absent"
          THEN [synced[o] EXCEPT !.rdpOn = TRUE] ELSE synced[o]]
    /\ tx' = [tx EXCEPT !.at = "verify"]
    /\ UNCHANGED <<byHand, creds, undisturbed>>

\* The read-back: VERIFIED, or exit 1.  Either way the next run starts over.
TxReadsBack ==
    /\ tx.at = "verify"
    /\ tx' = TxResting
    /\ UNCHANGED <<synced, byHand, creds, undisturbed>>

TxStops ==
    /\ tx.at # "idle" /\ Event
    /\ tx' = TxResting
    /\ UNCHANGED <<synced, byHand, creds, undisturbed, tables, live>>

TxRun == TxReadsTermix \/ TxWrites \/ TxTurnsRdpOn \/ TxReadsBack

-----------------------------------------------------------------------------
\* What the user does in Termix: pins a host, makes or deletes one by hand,
\* adds or removes the named credential.
UserPins(o) == synced[o].proto # "absent" /\ synced' = [synced EXCEPT ![o].pin = ~@] /\ UNCHANGED <<byHand, creds>>
UserMakes(o) ==
    /\ byHand' = IF o \in byHand THEN byHand \ {o} ELSE byHand \cup {o}
    /\ UNCHANGED <<synced, creds>>
UserChangesCredentials ==
    /\ \E c \in Credentials : creds' = IF c \in creds THEN creds \ {c} ELSE creds \cup {c}
    /\ UNCHANGED <<synced, byHand>>

UserEdits ==
    /\ Event
    /\ UNCHANGED <<tables, live>>
    /\ UserChangesCredentials \/ \E o \in Objects : UserPins(o) \/ UserMakes(o)
    /\ undisturbed' = FALSE /\ UNCHANGED tx

\* What the run's flag makes of a change in NetBox.
TermixMissed == undisturbed' = FALSE /\ UNCHANGED <<synced, byHand, creds, tx>>

-----------------------------------------------------------------------------
(* Properties.                                                             *)

TermixTypeOK ==
    /\ synced \in [Objects -> TxHost] /\ byHand \subseteq Objects /\ creds \subseteq Credentials
    /\ tx.at \in {"idle", "termix", "write", "verify"}
    /\ tx.held \subseteq Objects /\ tx.clash \subseteq Objects
    /\ \A k \in 1..Len(tx.todo) : tx.todo[k] \in {"POST", "PUT", "DELETE"} \X Objects
    /\ undisturbed \in BOOLEAN

Have(o) == synced[o].proto # "absent"

\* What a run may never do to Termix while nothing else changes: touch a
\* synced host whose credential Termix lacks or whose name a host made by
\* hand has, though NetBox still names it; delete one NetBox still names;
\* or lose what the user set on a host it keeps.
TermixSpares ==
    [][undisturbed /\ undisturbed' =>
        \A o \in Objects : Have(o) =>
            /\ o \in Named /\ (o \in byHand \/ WantedHosts[o].cred \notin creds) => synced'[o] = synced[o]
            /\ o \in Named => Have(o)'
            /\ Have(o)' => synced'[o].pin = synced[o].pin
      ]_termixVars

HostFollows(o) ==
    IF o \notin Named THEN ~Have(o)
    ELSE \/ o \in byHand \/ WantedHosts[o].cred \notin creds
         \/ ~Differs(synced[o], WantedHosts[o]) /\ ~SettingsDiffer(synced[o], WantedHosts[o])
=============================================================================
