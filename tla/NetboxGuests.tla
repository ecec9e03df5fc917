---------------------------- MODULE NetboxGuests ----------------------------
(***************************************************************************)
(* netbox_guests.py --pr: the nightly job that turns the shape NetBox holds *)
(* for the VMs of some roles into tofu/proxmox/netbox-guests.json, by a    *)
(* pull request from the branch netbox/guests.  The owner merges it.       *)
(*                                                                         *)
(* A file is a function from the VMs to their entry ("out" when it has     *)
(* none).  The branch's text is what the pull request would merge.  Only   *)
(* these pull requests change the file on main.                            *)
(***************************************************************************)
EXTENDS NetBox

CONSTANT Talos   \* the guests that are Talos nodes

VARIABLES
    main, branch,  \* the file on each
    pr,            \* a pull request is open
    maker          \* the run: its next call, what it read, its text

guestsVars == <<main, branch, pr, maker>>

Files == [Guests -> {"out"} \cup Shapes]
Resting == [at |-> "idle", previous |-> <<>>, text |-> <<>>]

GuestsInit ==
    /\ main = [g \in Guests |-> IF obj[g].role /\ obj[g].shape # "lacking" THEN obj[g].shape ELSE "out"]
    /\ branch = main /\ pr = FALSE
    /\ maker = Resting

Listed == {g \in Guests : There(g) /\ obj[g].role /\ obj[g].status # "decommissioning"}
Lacking == {g \in Listed : obj[g].shape = "lacking"}

\* A VM of one of the roles by its shape; one being removed by hand exactly
\* as main's file had it; no other.
Shape(previous) ==
    [g \in Guests |-> IF g \in Listed THEN obj[g].shape
                      ELSE IF obj[g].status = "decommissioning" THEN previous[g] ELSE "out"]

DropsAllTalos(file) == \A g \in Talos : file[g] = "out"
Refuses == Lacking # {} \/ DropsAllTalos(Shape(maker.previous))

\* Main's file is read before NetBox.
GuestsReadMain ==
    /\ maker.at = "idle"
    /\ maker' = [Resting EXCEPT !.at = "netbox", !.previous = main]
    /\ UNCHANGED <<main, branch, pr>>

\* NetBox's answer is refused when a VM lacks a field or when it would drop
\* every Talos node: nothing is written or opened.
GuestsReadNetBox ==
    /\ maker.at = "netbox"
    /\ maker' = IF Refuses THEN Resting ELSE [maker EXCEPT !.at = "compare", !.text = Shape(maker.previous)]
    /\ UNCHANGED <<main, branch, pr>>

GuestsCompare_WithBranch ==
    /\ maker.at = "compare"
    /\ IF branch = maker.text
       THEN maker' = Resting /\ UNCHANGED branch
       ELSE maker' = [maker EXCEPT !.at = "put"] /\ branch' = main
    /\ UNCHANGED <<main, pr>>

\* Main is read again, and the branch moved to it: nothing is to be opened
\* when main has the text already (an open pull request stays as it is).
GuestsCompare ==
    /\ maker.at = "compare"
    /\ IF main = maker.text
       THEN maker' = Resting /\ UNCHANGED branch
       ELSE maker' = [maker EXCEPT !.at = "put"] /\ branch' = main
    /\ UNCHANGED <<main, pr>>

\* GitHub takes the commit only over the file the branch was moved to.
GuestsPut ==
    /\ maker.at = "put"
    /\ maker' = [maker EXCEPT !.at = "open"]
    /\ branch' = maker.text
    /\ UNCHANGED <<main, pr>>

GuestsOpen ==
    /\ maker.at = "open"
    /\ pr' = TRUE
    /\ maker' = Resting
    /\ UNCHANGED <<main, branch>>

GuestsRefused ==
    /\ maker.at # "idle" /\ Event
    /\ maker' = Resting
    /\ UNCHANGED <<main, branch, pr, tables, live>>

GuestsRun == GuestsReadNetBox \/ GuestsCompare \/ GuestsPut \/ GuestsOpen

\* The owner merges the pull request; a branch just moved to main has nothing
\* to merge.
Merge ==
    /\ pr /\ branch # main
    /\ pr' = FALSE
    /\ main' = branch
    /\ UNCHANGED <<branch, maker>>

-----------------------------------------------------------------------------
(* Properties.                                                             *)

GuestsTypeOK ==
    /\ main \in Files /\ branch \in Files
    /\ pr \in BOOLEAN
    /\ maker.at \in {"idle", "netbox", "compare", "put", "open"}
    /\ maker.at # "idle" => maker.previous \in Files
    /\ maker.at \in {"compare", "put", "open"} => maker.text \in Files

\* What NetBox asks of the file now: each VM of a role by its shape, none
\* for a VM that is gone from NetBox.  One being removed is left open.
FileFollows == \A g \in Guests : obj[g].status = "decommissioning" \/ main[g] = Shape(main)[g]
=============================================================================
