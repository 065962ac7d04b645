----------------------------- MODULE RunRecords -----------------------------
(* What the history of Raviente sieges promises to those who read it (the    *)
(* tables raviente_runs and raviente_run_participants): a siege is recorded  *)
(* at most once, a channel runs one siege at a time, a record ends once and  *)
(* does not change after its end, and only a siege somebody fought in can be *)
(* recorded as completed.  Nothing is said of how the channel finds out.     *)
EXTENDS Naturals, Sequences

CONSTANTS
    Siege,    \* what identifies a siege: the process and its generation
    Kind,     \* the event kinds a siege may turn out to be
    Unknown,  \* the kind before anybody has entered a quest
    Player    \* characters

VARIABLE rows   \* the rows, in the order of their ids

Begin ==
    \E g \in Siege :
        /\ \A i \in DOMAIN rows : rows[i].siege # g /\ rows[i].status # "active"
        /\ rows' = Append(rows, [siege |-> g, status |-> "active",
                                 kind |-> Unknown, team |-> {}])

\* A hunter enters; the first one says what kind of siege it is.
Join ==
    \E i \in DOMAIN rows, k \in Kind, p \in Player :
        /\ rows[i].status = "active" /\ rows[i].kind \in {k, Unknown}
        /\ rows' = [rows EXCEPT ![i].kind = k, ![i].team = @ \cup {p}]

\* Hunters whose entry could not be stored are written with the result.
Finish ==
    \E i \in DOMAIN rows, k \in Kind, late \in SUBSET Player :
        /\ rows[i].status = "active" /\ rows[i].kind \in {k, Unknown}
        /\ rows[i].team \cup late # {}
        /\ rows' = [rows EXCEPT ![i].status = "completed", ![i].kind = k,
                                ![i].team = @ \cup late]

GiveUp ==
    \E i \in DOMAIN rows :
        /\ rows[i].status = "active"
        /\ rows' = [rows EXCEPT ![i].status = "aborted"]

\* One siege is given up for the next one.
Supersede ==
    \E i \in DOMAIN rows, g \in Siege :
        /\ rows[i].status = "active"
        /\ \A j \in DOMAIN rows :
              rows[j].siege # g /\ (j # i => rows[j].status # "active")
        /\ rows' = Append([rows EXCEPT ![i].status = "aborted"],
                          [siege |-> g, status |-> "active",
                           kind |-> Unknown, team |-> {}])

Init == rows = <<>>
Next == Begin \/ Join \/ Finish \/ GiveUp \/ Supersede
Spec == Init /\ [][Next]_rows
=============================================================================
