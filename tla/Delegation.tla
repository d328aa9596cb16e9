----------------------------- MODULE Delegation -----------------------------
(***************************************************************************)
(* One request to a team of agents (supervise.py): a supervisor that       *)
(* routes, peers that hand off, a manager that delegates, or a group chat. *)
(* What a member answers is chosen; a router, manager or handoff policy    *)
(* may name anyone, also an agent the team does not have.                  *)
(***************************************************************************)
EXTENDS Integers, Sequences, FiniteSets

CONSTANTS
    Size,           \* names 1 .. Size, in the order of the descriptions
    Budgets         \* values of max_hops, max_subtasks, max_rounds

VARIABLES
    team,           \* kind, members, first (start or fallback), budget, selector
    steps,          \* the members that were asked, and what came of it
    next,           \* the member that is asked next
    answer

vars == <<team, steps, next, answer>>

Name == 1 .. Size
NoOne == 0
Unknown == Size + 1
Choice == Name \cup {NoOne, Unknown}

Outcome == {"completed", "stopped", "blocked"}
Pending == "pending"
Nothing == "nothing"        \* HandoffAgent without a single hop returns None

FirstOf(members) == CHOOSE m \in members : \A n \in members : m <= n

(* build(): the member that was set, else the first.  The fallback may name no
   member; the start is looked up when the team runs. *)
Init ==
    /\ \E kind \in {"supervisor", "handoff", "manager", "chat"}, set \in Choice,
          members \in {Name, {Size}}, budget \in Budgets, selector \in {"round_robin", "any"} :
          /\ kind = "handoff" => set \in members \cup {NoOne}
          /\ kind \in {"manager", "chat"} => set = NoOne
          /\ kind # "chat" => selector = "any"
          /\ team = [kind |-> kind, members |-> members, budget |-> budget,
                     selector |-> selector,
                     first |-> IF set = NoOne THEN FirstOf(members) ELSE set]
    /\ steps = <<>>
    /\ next = NoOne
    /\ answer = Pending

Running(kind) == team.kind = kind /\ answer = Pending
Ask(m) == next' = m /\ UNCHANGED <<team, steps, answer>>
Finish(a) == answer' = a /\ next' = NoOne /\ UNCHANGED <<team, steps>>

(* The member that is asked answers; its text is what the next one gets. *)
Answered(a) == steps' = Append(steps, [who |-> next, outcome |-> a])

(* SupervisorAgent.run: the routed member, else the fallback, else the first. *)
Route ==
    /\ Running("supervisor") /\ next = NoOne
    /\ \E chosen \in Choice :
          Ask(IF chosen \in team.members THEN chosen
              ELSE IF team.first \in team.members THEN team.first ELSE FirstOf(team.members))

Routed ==
    /\ Running("supervisor") /\ next # NoOne
    /\ \E a \in Outcome : Answered(a) /\ answer' = a
    /\ next' = NoOne /\ UNCHANGED team

(* HandoffAgent.run *)
StartPeers ==
    /\ Running("handoff") /\ next = NoOne
    /\ IF team.budget = 0 THEN Finish(Nothing) ELSE Ask(team.first)

(* Mutant: the hop that is running is not counted. *)
Onward_OneMore(peer) == peer \in team.members \ {next} /\ Len(steps) < team.budget

(* A hop is left and the policy names another peer. *)
Onward(peer) == peer \in team.members \ {next} /\ Len(steps) + 1 < team.budget

Hop ==
    /\ Running("handoff") /\ next # NoOne
    /\ \E a \in Outcome, peer \in Choice :
          LET on == a # "blocked" /\ Onward(peer)
          IN  /\ Answered(a)
              /\ next' = IF on THEN peer ELSE NoOne
              /\ answer' = IF on THEN answer ELSE a
    /\ UNCHANGED team

(* ManagerAgent.run: at a name that is no worker's, or after max_subtasks, the
   texts so far are a completed answer; a blocked one is the answer at once. *)
Delegate ==
    /\ Running("manager") /\ next = NoOne
    /\ \E worker \in Choice :
          IF worker \in team.members /\ Len(steps) < team.budget
          THEN Ask(worker) ELSE Finish("completed")

(* Mutant: a block is one more text. *)
Reply_BlockIsText(a) == Answered(a) /\ next' = NoOne /\ UNCHANGED <<team, answer>>

(* The answer of a worker or speaker: a block ends the run. *)
Reply(a) ==
    /\ Answered(a)
    /\ next' = NoOne
    /\ answer' = IF a = "blocked" THEN a ELSE answer
    /\ UNCHANGED team

Work == Running("manager") /\ next # NoOne /\ \E a \in Outcome : Reply(a)

Last == IF steps = <<>> THEN 0 ELSE steps[Len(steps)].who

(* RoundRobinSelector.next: stops after a full cycle. *)
RoundRobin == IF Len(steps) >= Size THEN NoOne
              ELSE (Last % Size) + 1

(* GroupChatAgent.run: no speaker, or one the team lacks, ends the chat with
   the last answer, or an empty one when nobody spoke. *)
Select ==
    /\ Running("chat") /\ next = NoOne
    /\ \E speaker \in IF team.selector = "any" THEN Choice ELSE {RoundRobin} :
          IF speaker \in team.members /\ Len(steps) < team.budget THEN Ask(speaker)
          ELSE Finish(IF steps = <<>> THEN "completed" ELSE steps[Len(steps)].outcome)

Speak == Running("chat") /\ next # NoOne /\ \E a \in Outcome : Reply(a)

(* agent_as_tool: what the team's answer is to the model that called it. *)
AsTool == IF answer = "blocked" THEN "failed" ELSE "ok"

Next ==
    \/ Route \/ Routed \/ StartPeers \/ Hop
    \/ Delegate \/ Work \/ Select \/ Speak

Spec == Init /\ [][Next]_vars /\ WF_vars(Next)

------------------------------------------------------------------------------
(* A block is the last thing that happens in a team and it is the team's
   answer; a failed tool to the model above is a block and nothing else.  In a
   round-robin chat nobody speaks twice or out of turn. *)
BlockIsFinal ==
    /\ \A i \in DOMAIN steps : steps[i].outcome = "blocked" => i = Len(steps) /\ answer = "blocked"
    /\ AsTool = "failed" <=> steps # <<>> /\ steps[Len(steps)].outcome = "blocked"
    /\ team.selector = "round_robin" => \A i \in DOMAIN steps : steps[i].who = i

(* "until one keeps it or the hop budget is spent": no policy keeps a team busy
   for ever; the number of agents asked stays within the budget, and what was
   blocked on the way is the answer. *)
Settled ==
    /\ answer # Pending
    /\ team.kind # "supervisor" => Len(steps) <= team.budget
    /\ BlockIsFinal
==============================================================================
