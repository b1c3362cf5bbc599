---------------------------- MODULE RegistryClient ----------------------------
(***************************************************************************)
(* The dashboard's client of the registry of netdata servers               *)
(* (NETDATA.registry, portal/dashboard.js 6826-7069): init() says HELLO to *)
(* the page's own server, which names the registry; ACCESS tells the       *)
(* registry about this server and returns the servers that the person has  *)
(* visited, or sends the page on to another registry; parsePersonUrls()    *)
(* merges the answer into one entry per machine.  DELETE and SWITCH change *)
(* what the registry holds, and the page then runs init() again            *)
(* (portal/index.html 910-953); SEARCH changes nothing.                    *)
(*                                                                         *)
(* Nothing keeps one init() from starting while another is under way: the  *)
(* requests of both are answered in any order.                             *)
(***************************************************************************)
EXTENDS Integers, Sequences, SequencesExt, FiniteSets, FiniteSetsExt

CONSTANTS Machines,        \* machine guids
          Persons,         \* persons the registry knows
          RegistryActs,    \* how often the user deletes or switches, at most
          RegistryFaults   \* how many requests are refused or fail, at most

VARIABLE reg

MaxRedirects == 2

\* null, as a set that holds nothing: an optional value is a set of at most one.
None == {}

\* The rows a person may have: machine, url, time of the last visit, visits.
\* Row i of a list has url i.
Row(g, u, t) == [guid |-> g, url |-> u, last_t |-> t, accesses |-> t]

RowLists == {<<>>} \cup {<<Row(g, 1, 1)>> : g \in Machines}
    \cup {<<Row(g1, 1, t1), Row(g2, 2, t2), Row(g3, 3, 2)>> :
              g1, g2, g3 \in Machines, t1, t2 \in 1..3}

NoMachines == [g \in Machines |-> None]

\* The entry of a machine for its first row, and what another row does to it:
\* the url visited last counts.
NewMachine(row) ==
    [url |-> row.url, last_t |-> row.last_t, accesses |-> row.accesses,
     alternate_urls |-> <<row.url>>]

\* Mutant: the row that comes last wins, not the one visited last.
Mut_MergeRow(m, row) ==
    [url |-> row.url, last_t |-> row.last_t, accesses |-> m.accesses + row.accesses,
     alternate_urls |-> Append(m.alternate_urls, row.url)]

MergeRow(m, row) ==
    LET later == m.last_t < row.last_t
    IN  [url |-> IF later THEN row.url ELSE m.url,
         last_t |-> IF later THEN row.last_t ELSE m.last_t,
         accesses |-> m.accesses + row.accesses,
         alternate_urls |-> Append(m.alternate_urls, row.url)]

\* parsePersonUrls(): the rows are taken from the last to the first; an answer
\* without rows leaves the machines as they are.
ParsePersonUrls(machines, answer) ==
    IF answer = None THEN machines
    ELSE LET rows == CHOOSE r \in answer : TRUE
         IN  FoldLeft(LAMBDA ms, row :
                         [ms EXCEPT ![row.guid] = IF @ = None THEN {NewMachine(row)}
                             ELSE {MergeRow(m, row) : m \in @}],
                      NoMachines, Reverse(rows))

\* `lists`: what the registry holds of every person; `who`: the person the
\* browser's cookie names; `calls`: the requests under way.  `server` (the registry
\* the page talks to), `machines` and `person` are the page's.  History: `sent`, the last rows received; `overlap`,
\* whether two requests were ever under way together; `current`, whether the
\* last init() was answered with rows.
RegistryInit ==
    \E lists \in [Persons -> RowLists], who \in Persons :
        /\ \A p \in Persons \ {who} : Len(lists[p]) < 3
        /\ reg = [lists |-> lists, who |-> who, calls |-> <<[op |-> "hello"]>>,
                  server |-> 0, machines |-> NoMachines, person |-> 0, sent |-> None,
                  overlap |-> FALSE, current |-> FALSE,
                  acts |-> RegistryActs, faults |-> RegistryFaults]

\* Request k is over; `next` are the requests its handler sends.
Answered(r, k, next) ==
    LET calls == RemoveAt(r.calls, k) \o next
    IN  [r EXCEPT !.calls = calls, !.overlap = @ \/ Len(calls) > 1]

Refused(r) == [r EXCEPT !.faults = @ - 1]

RegistryInitCall == <<[op |-> "hello"]>>

-----------------------------------------------------------------------------
\* The answer to HELLO: ACCESS is sent with two redirects allowed.
HelloAnswer(k) ==
    /\ reg.calls[k].op = "hello"
    /\ reg' = [Answered(reg, k, <<[op |-> "access", left |-> MaxRedirects]>>)
                  EXCEPT !.server = 1]

\* HELLO fails, or its answer is not ok: init() ends, nothing is called back.
HelloFails(k) ==
    /\ reg.calls[k].op = "hello"
    /\ reg.faults > 0
    /\ reg' = [Refused(Answered(reg, k, <<>>)) EXCEPT !.current = FALSE]

\* The registry answers ACCESS with the rows it holds for the person.
AccessAnswer(k) ==
    /\ reg.calls[k].op = "access"
    /\ LET rows == reg.lists[reg.who]
       IN  reg' = [Answered(reg, k, <<>>) EXCEPT
                      !.person = reg.who, !.sent = {rows}, !.current = TRUE,
                      !.machines = ParsePersonUrls(@, {rows})]

\* Mutant: the redirects are not counted.
Mut_Redirected(left) == <<[op |-> "access", left |-> left]>>

\* The request the page is sent on with.
Redirected(left) == <<[op |-> "access", left |-> left - 1]>>

\* The registry sends the page to the other one: it follows twice, then gives up
\* and parsePersonUrls() is told that there is no answer.
AccessRedirect(k) ==
    /\ reg.calls[k].op = "access"
    /\ LET left == reg.calls[k].left
       IN  reg' = IF left > 0
                  THEN [Answered(reg, k, Redirected(left)) EXCEPT !.server = 3 - @]
                  ELSE [Answered(reg, k, <<>>) EXCEPT
                           !.machines = ParsePersonUrls(@, None), !.current = FALSE]

\* ACCESS fails, or is refused without a redirect.
AccessFails(k) ==
    /\ reg.calls[k].op = "access"
    /\ reg.faults > 0
    /\ reg' = [Refused(Answered(reg, k, <<>>)) EXCEPT
                  !.machines = ParsePersonUrls(@, None), !.current = FALSE]

\* The user deletes a url of the page's list, or switches to another person.
UserDeletes ==
    /\ reg.acts > 0
    /\ \E g \in Machines : \E m \in reg.machines[g] :
          reg' = [reg EXCEPT !.calls = Append(@, [op |-> "delete", url |-> m.url]),
                             !.overlap = @ \/ reg.calls # <<>>, !.acts = @ - 1]

UserSwitches ==
    /\ reg.acts > 0
    /\ \E p \in Persons :
          reg' = [reg EXCEPT !.calls = Append(@, [op |-> "switch", to |-> p]),
                             !.overlap = @ \/ reg.calls # <<>>, !.acts = @ - 1]

\* Mutant: the page does not read the list again after a delete.
Mut_DeleteAnswer(k) ==
    /\ reg.calls[k].op = "delete"
    /\ reg' = [Answered(reg, k, <<>>) EXCEPT
                  !.lists[reg.who] = SelectSeq(@, LAMBDA row : row.url # reg.calls[k].url)]

\* The registry has deleted the url of the person: the page reads its list again.
DeleteAnswer(k) ==
    /\ reg.calls[k].op = "delete"
    /\ reg' = [Answered(reg, k, RegistryInitCall) EXCEPT
                  !.lists[reg.who] = SelectSeq(@, LAMBDA row : row.url # reg.calls[k].url)]

\* The registry has given the browser the cookie of another person.
SwitchAnswer(k) ==
    /\ reg.calls[k].op = "switch"
    /\ reg' = [Answered(reg, k, RegistryInitCall) EXCEPT !.who = reg.calls[k].to]

\* A delete or a switch is refused or fails: the page says so.
ChangeFails(k) ==
    /\ reg.calls[k].op \in {"delete", "switch"}
    /\ reg.faults > 0
    /\ reg' = Refused(Answered(reg, k, <<>>))

RegistryAnswers ==
    \E k \in 1..Len(reg.calls) :
        \/ HelloAnswer(k) \/ HelloFails(k)
        \/ AccessAnswer(k) \/ AccessRedirect(k) \/ AccessFails(k)
        \/ DeleteAnswer(k) \/ SwitchAnswer(k) \/ ChangeFails(k)

RegistryNext == RegistryAnswers \/ UserDeletes \/ UserSwitches

RegistrySpec == RegistryInit /\ [][RegistryNext]_reg

\* Every request is answered or fails.
RegistryFairness == WF_reg(RegistryAnswers)

RegistryFairSpec == RegistrySpec /\ RegistryFairness

-----------------------------------------------------------------------------
(***************************************************************************)
(* Properties                                                              *)
(***************************************************************************)

\* The rows of a machine.
RowsOf(rows, g) == {i \in 1..Len(rows) : rows[i].guid = g}

\* The machines of the page are those of the rows received last, one entry each:
\* it shows a url that no other was visited after, all the visits, and every
\* url (parsePersonUrls() 6835-6879).
MachinesAreMerged ==
    \A rows \in reg.sent, g \in Machines :
        LET mine == RowsOf(rows, g)
        IN  IF mine = {} THEN reg.machines[g] = None
            ELSE \E m \in reg.machines[g] :
                    /\ \E i \in mine : /\ m.url = rows[i].url
                                       /\ \A j \in mine : rows[j].last_t <= rows[i].last_t
                    /\ m.accesses = FoldSet(LAMBDA i, sum : sum + rows[i].accesses, 0, mine)
                    /\ ToSet(m.alternate_urls) = {rows[i].url : i \in mine}

\* A page at rest whose last init() was answered shows what the registry holds
\* for the person: neither a deleted url nor the servers of someone else.  Two
\* requests under way together may leave the older answer (hence ~ overlap).
FreshAtRest ==
    reg.calls = <<>> /\ reg.current /\ ~ reg.overlap =>
        /\ reg.person = reg.who
        /\ \A g \in Machines : \A m \in reg.machines[g] :
              ToSet(m.alternate_urls) \subseteq
                  {reg.lists[reg.who][i].url : i \in RowsOf(reg.lists[reg.who], g)}

AtRest == reg.calls = <<>>

=============================================================================
