----------------------------- MODULE AgentMain -----------------------------
(***************************************************************************)
(* AgentMain (core/agent_main.py): the autonomous loop's threads, the      *)
(* thread that teaches and explores, the threads that start and stop the   *)
(* loop, and the ConstraintSystem, all over one IdentityCore.              *)
(*                                                                         *)
(* A step of a thread is what it does between two points where another may *)
(* interfere: a call into the identity holds its lock, the rest holds      *)
(* none, start and stop of the loop included, where each access to         *)
(* _running and _loop_thread is a step.  Thread.start is one step.         *)
(* Teacher, curiosity engine, evolution loop, modify guard and             *)
(* capsule store are not in this repository: a call returns anything its   *)
(* user can tell apart, and those in Raising may raise.                    *)
(***************************************************************************)
EXTENDS IdentityCore

CONSTANTS
  User,      \* the thread that teaches; the other threads of Proc run the loop
  Caller,    \* the threads that start and stop the loop; the user may be one
  Topic,     \* topics of explorations
  AutoLike,  \* topics that contain the word "auto" or are contained in it
  Every,     \* [Stage -> period in cycles]: 3, 5, 7, 10, 20
  Period,    \* the cycle counter is kept modulo this number
  Raising,   \* stages whose external calls may raise
  Ops        \* [thread -> the calls it makes]

\* The stages of a cycle, in the order of _autonomous_loop.
Stages == <<"evolve", "task", "question", "explore", "sync">>
Stage == {Stages[i] : i \in 1..Len(Stages)}
Thread == Proc \ {User}
Actor == Proc \cup Caller
AllOps == {"start", "stop", "teach", "evolve", "explore", "blacklist"}

\* Inside start_autonomous_loop and stop_autonomous_loop, before the access of that name.
CallPlace == {"set", "make", "launch", "test", "enter", "join"}

\* Where a thread is: off (outside its calls, not created or ended), created and not
\* started, at the top of the loop, before a stage or inside one, or inside a call.
Place == {"off", "new", "top", "saving", "record", "values", "goals"} \cup Stage \cup CallPlace

ASSUME AgentMainAssumption ==
  /\ User \in Proc
  /\ None \notin Actor
  /\ Caller \cap Thread = {}
  /\ AutoLike \subseteq Topic
  /\ Period \in Nat \ {0}
  /\ Every \in [Stage -> Nat \ {0}]
  /\ \A s \in Stage : Period % Every[s] = 0
  /\ Raising \subseteq Stage
  /\ Ops \in [Caller \cup {User} -> SUBSET AllOps]

VARIABLES
  running,    \* _running
  loopThread, \* _loop_thread
  at,         \* [Actor -> Place]
  joined,     \* [Caller -> the thread it has called join on]
  cycle,      \* [Thread -> cycle], modulo Period
  seen,       \* [Proc -> what _sync_capsule_from_identity read]
  capsule,    \* the identity capsules: current_values and current_goals
  blacklist,  \* ConstraintSystem._blacklist
  explored,   \* topics recorded as explored
  timeouts,   \* joins that ran into their timeout
  crossed     \* calls of start or stop begun while another caller was inside one

calmVars  == <<mem, file, disk, writer, unsaved>>
runVars   == <<running, loopThread, joined, timeouts, crossed>>
topicVars == <<blacklist, explored>>
syncVars  == <<seen, capsule>>
mainVars  == <<runVars, at, cycle, seen, capsule, blacklist, explored>>
vars      == <<idVars, mainVars>>

Self == [values |-> cur.values, goals |-> cur.goals]
Unread == [values |-> [k \in Key |-> 0], goals |-> {}]

Init ==
  /\ IdInit
  /\ running = FALSE /\ loopThread = None /\ timeouts = 0 /\ crossed = 0
  /\ at = [p \in Actor |-> "off"]
  /\ joined = [c \in Caller |-> None]
  /\ cycle = [t \in Thread |-> 0]
  /\ seen = [p \in Proc |-> Unread] /\ capsule = Unread
  /\ blacklist = {} /\ explored = {}

-----------------------------------------------------------------------------
(* Places *)

Due(n) == {i \in 1..Len(Stages) : n % Every[Stages[i]] = 0}

\* The first of the stages I, or the end of the cycle.
First(I) == IF I = {} THEN "top" ELSE Stages[CHOOSE i \in I : \A j \in I : i <= j]

\* Where p goes after stage s: a loop thread to its next stage that is due, the user back
\* to its caller, by way of the capsules when it taught or evolved the identity.
After(p, s) ==
  IF p = User THEN IF s = "evolve" THEN "sync" ELSE "off"
  ELSE First({i \in Due(cycle[p]) : \E j \in 1..i-1 : Stages[j] = s})

GoOn(p, s) == at' = [at EXCEPT ![p] = After(p, s)]

\* An exception ends the cycle.
Raise(t, s) ==
  /\ s \in Raising
  /\ Event
  /\ at' = [at EXCEPT ![t] = "top"]

\* The head of the loop: on with the next cycle, or out.
Top(t) ==
  /\ at[t] = "top"
  /\ \/ /\ running
        /\ cycle' = [cycle EXCEPT ![t] = (@ % Period) + 1]
        /\ at' = [at EXCEPT ![t] = First(Due(cycle'[t]))]
     \/ /\ ~running
        /\ at' = [at EXCEPT ![t] = "off"]
        /\ cycle' = [cycle EXCEPT ![t] = 0]
  /\ UNCHANGED <<idVars, runVars, syncVars, topicVars>>

-----------------------------------------------------------------------------
(* The identity, from the loop and from teach() and evolve() *)

\* A call into the identity returns at once when it saves nothing or cannot open the file.
Called(p) == at' = [at EXCEPT ![p] = IF writer' = p THEN "saving" ELSE After(p, "evolve")]

LoopEvolve(t) ==
  /\ at[t] = "evolve"
  /\ \/ Evolve(t, 0)
     \/ NothingToEvolve /\ UNCHANGED idVars
  /\ Called(t)
  /\ UNCHANGED <<runVars, cycle, syncVars, topicVars>>

Saving(p) ==
  /\ at[p] = "saving"
  /\ SaveStep(p)
  /\ GoOn(p, "evolve")
  /\ UNCHANGED <<runVars, cycle, syncVars, topicVars>>

\* evolve(): the modify guard executes the function or refuses.
UserEvolve ==
  /\ "evolve" \in Ops[User] /\ at[User] = "off"
  /\ \/ Evolve(User, 1)
     \/ Event /\ UNCHANGED calmVars \* refused, or nothing to evolve
  /\ Called(User)
  /\ UNCHANGED <<runVars, cycle, syncVars, topicVars>>

\* teach(): the teacher updates the identity.
UserTeach ==
  /\ "teach" \in Ops[User] /\ at[User] = "off"
  /\ Teach(User)
  /\ Called(User)
  /\ UNCHANGED <<runVars, cycle, syncVars, topicVars>>

-----------------------------------------------------------------------------
(* generate_self_task and self_question change nothing in this repository *)

Ask(t) ==
  \E s \in {"task", "question"} :
    /\ at[t] = s
    /\ \/ Raise(t, s)
       \/ GoOn(t, s) /\ UNCHANGED events
    /\ UNCHANGED <<calmVars, runVars, cycle, syncVars, topicVars>>

-----------------------------------------------------------------------------
(* explore() *)

\* check_action for source "curiosity" refuses what the blacklist matches; what passes here
\* the identity may still refuse (the safety filter never refuses an exploration).
MayPass(words) == words \cap blacklist = {}

\* The check of explore(None) is made for the word "auto".
LoopExplore(t) ==
  /\ at[t] = "explore"
  /\ \/ /\ MayPass(AutoLike)
        /\ at' = [at EXCEPT ![t] = "record"]
        /\ UNCHANGED events
     \/ GoOn(t, "explore") /\ UNCHANGED events
     \/ Raise(t, "explore")
  /\ UNCHANGED <<calmVars, runVars, cycle, syncVars, topicVars>>

\* The curiosity engine picks a topic, or none; the guard's answer is not looked at.
LoopRecord(t) ==
  /\ at[t] = "record"
  /\ \/ /\ GoOn(t, "explore") /\ UNCHANGED events
        /\ \E S \in {{}} \cup {{x} : x \in Topic} : explored' = explored \cup S
     \/ Raise(t, "explore") /\ UNCHANGED explored
  /\ UNCHANGED <<calmVars, runVars, cycle, syncVars, blacklist>>

\* explore(topic); nobody else adds to the blacklist, so check and record are one step.
UserExplore(x) ==
  /\ "explore" \in Ops[User] /\ at[User] = "off"
  /\ MayPass({x})
  /\ explored' = explored \cup {x}
  /\ UNCHANGED <<idVars, runVars, at, cycle, syncVars, blacklist>>

AddToBlacklist(x) ==
  /\ "blacklist" \in Ops[User] /\ at[User] = "off"
  /\ Event
  /\ blacklist' = blacklist \cup {x}
  /\ UNCHANGED <<calmVars, runVars, at, cycle, syncVars, explored>>

-----------------------------------------------------------------------------
(* _sync_capsule_from_identity: one read under the lock, then separate writes *)

SyncRead(p) ==
  /\ at[p] = "sync"
  /\ Unlocked
  /\ seen' = [seen EXCEPT ![p] = Self]
  /\ at' = [at EXCEPT ![p] = "values"]
  /\ UNCHANGED <<idVars, runVars, cycle, capsule, topicVars>>

\* A write that raises ends the synchronisation, not the cycle.
SyncFails(p) ==
  /\ at[p] \in {"values", "goals"}
  /\ "sync" \in Raising
  /\ Event
  /\ seen' = [seen EXCEPT ![p] = Unread]
  /\ GoOn(p, "sync")
  /\ UNCHANGED <<calmVars, runVars, cycle, capsule, topicVars>>

\* Mutant of SyncValues: the goals are not written.
SyncValuesOnly(p) ==
  /\ at[p] = "values"
  /\ capsule' = [capsule EXCEPT !.values = seen[p].values]
  /\ GoOn(p, "sync")
  /\ UNCHANGED <<idVars, runVars, cycle, seen, topicVars>>

SyncValues(p) ==
  /\ at[p] = "values"
  /\ capsule' = [capsule EXCEPT !.values = seen[p].values]
  /\ at' = [at EXCEPT ![p] = "goals"]
  /\ UNCHANGED <<idVars, runVars, cycle, seen, topicVars>>

SyncGoals(p) ==
  /\ at[p] = "goals"
  /\ capsule' = [capsule EXCEPT !.goals = seen[p].goals]
  /\ seen' = [seen EXCEPT ![p] = Unread]
  /\ GoOn(p, "sync")
  /\ UNCHANGED <<idVars, runVars, cycle, topicVars>>

-----------------------------------------------------------------------------
(* Starting and stopping the loop, which any caller may do at any time *)

\* A call begins with its first access; one that crosses another's counts as an event.
Begin(c, place) ==
  /\ at[c] = "off"
  /\ at' = [at EXCEPT ![c] = place]
  /\ \/ /\ \E d \in Caller : at[d] \in CallPlace
        /\ Event
        /\ crossed' = crossed + 1
     \/ /\ \A d \in Caller : at[d] \notin CallPlace
        /\ UNCHANGED <<events, crossed>>

\* Mutant of StartLoop: a second loop beside the first.
StartAgain(c) ==
  /\ "start" \in Ops[c]
  /\ Begin(c, "set")
  /\ UNCHANGED <<calmVars, running, loopThread, joined, timeouts, cycle, syncVars, topicVars>>

\* start_autonomous_loop: the test of _running; a thread of an earlier start may still be
\* in its cycle.
StartLoop(c) ==
  /\ "start" \in Ops[c]
  /\ ~running
  /\ Begin(c, "set")
  /\ UNCHANGED <<calmVars, running, loopThread, joined, timeouts, cycle, syncVars, topicVars>>

SetRunning(c) ==
  /\ at[c] = "set"
  /\ running' = TRUE
  /\ at' = [at EXCEPT ![c] = "make"]
  /\ UNCHANGED <<idVars, loopThread, joined, timeouts, crossed, cycle, syncVars, topicVars>>

\* Names for a new thread: none that runs or that somebody waits for.
Unused == {t \in Thread : at[t] \in {"off", "new"} /\ \A d \in Caller : joined[d] # t}

\* The new thread replaces the one that _loop_thread named, which is lost if nobody started it.
MakeThread(c) ==
  /\ at[c] = "make"
  /\ Unused # {}
  /\ LET t == CHOOSE x \in Unused : TRUE
     IN  /\ loopThread' = t
         /\ at' = [p \in Actor |-> IF p = c THEN "launch"
                                   ELSE IF p = t THEN "new"
                                   ELSE IF at[p] = "new" THEN "off" ELSE at[p]]
  /\ UNCHANGED <<idVars, running, joined, timeouts, crossed, cycle, syncVars, topicVars>>

\* It starts whatever _loop_thread names now, and raises if somebody else has started that.
LaunchThread(c) ==
  /\ at[c] = "launch"
  /\ at' = [at EXCEPT ![c] = "off", ![loopThread] = IF @ = "new" THEN "top" ELSE @]
  /\ UNCHANGED <<idVars, runVars, cycle, syncVars, topicVars>>

StopLoop(c) ==
  /\ "stop" \in Ops[c]
  /\ Begin(c, "test")
  /\ running' = FALSE
  /\ UNCHANGED <<calmVars, loopThread, joined, timeouts, cycle, syncVars, topicVars>>

\* A thread between its start and its end.
Alive(t) == t # None /\ at[t] \notin {"off", "new"}

TestAlive(c) ==
  /\ at[c] = "test"
  /\ at' = [at EXCEPT ![c] = IF Alive(loopThread) THEN "enter" ELSE "off"]
  /\ UNCHANGED <<idVars, runVars, cycle, syncVars, topicVars>>

\* The attribute is read again: join raises if it names a thread that is not started.
EnterJoin(c) ==
  /\ at[c] = "enter"
  /\ \/ /\ at[loopThread] = "new"
        /\ at' = [at EXCEPT ![c] = "off"]
        /\ UNCHANGED joined
     \/ /\ at[loopThread] # "new"
        /\ at' = [at EXCEPT ![c] = "join"]
        /\ joined' = [joined EXCEPT ![c] = loopThread]
  /\ UNCHANGED <<idVars, running, loopThread, timeouts, crossed, cycle, syncVars, topicVars>>

\* join returns with the thread, or with its timeout; nothing tells which.
Join(c) ==
  /\ at[c] = "join"
  /\ \/ at[joined[c]] = "off" /\ UNCHANGED <<timeouts, events>>
     \/ Event /\ timeouts' = timeouts + 1
  /\ at' = [at EXCEPT ![c] = "off"]
  /\ joined' = [joined EXCEPT ![c] = None]
  /\ UNCHANGED <<calmVars, running, loopThread, crossed, cycle, syncVars, topicVars>>

\* A crash and restart takes the threads and the blacklist along; the capsules stay.
CrashAll ==
  /\ Crash
  /\ running' = FALSE /\ loopThread' = None
  /\ at' = [p \in Actor |-> "off"]
  /\ joined' = [c \in Caller |-> None]
  /\ blacklist' = {}
  /\ seen' = [p \in Proc |-> Unread]
  /\ cycle' = [t \in Thread |-> 0]
  /\ UNCHANGED <<capsule, explored, timeouts, crossed>>

-----------------------------------------------------------------------------
\* What a thread does once it is in a call or a cycle.
Step(p) ==
  \/ p # User /\ (Top(p) \/ LoopEvolve(p) \/ Ask(p) \/ LoopExplore(p) \/ LoopRecord(p))
  \/ Saving(p)
  \/ SyncRead(p) \/ SyncValues(p) \/ SyncGoals(p) \/ SyncFails(p)

CallStep(c) ==
  \/ SetRunning(c) \/ MakeThread(c) \/ LaunchThread(c)
  \/ TestAlive(c) \/ EnterJoin(c) \/ Join(c)

UserCall ==
  \/ UserEvolve \/ UserTeach
  \/ \E x \in Topic : UserExplore(x) \/ AddToBlacklist(x)

Next == \/ \E p \in Proc : Step(p)
        \/ UserCall
        \/ \E c \in Caller : StartLoop(c) \/ StopLoop(c) \/ CallStep(c)
        \/ CrashAll

Spec == Init /\ [][Next]_vars

\* The operating system runs every thread, external calls return; nobody has to call.
FairSpec == /\ Spec
            /\ \A p \in Proc : WF_vars(Step(p))
            /\ \A c \in Caller : WF_vars(CallStep(c))
-----------------------------------------------------------------------------
(* Properties *)

TypeOK ==
  /\ IdTypeOK
  /\ running \in BOOLEAN
  /\ loopThread \in Thread \cup {None}
  /\ at \in [Actor -> Place]
  /\ joined \in [Caller -> Thread \cup {None}]
  /\ cycle \in [Thread -> 0..Period]
  /\ seen \in [Proc -> [values : [Key -> Value], goals : SUBSET Goal]]
  /\ capsule \in [values : [Key -> Value], goals : SUBSET Goal]
  /\ blacklist \subseteq Topic /\ explored \subseteq Topic
  /\ timeouts \in Nat /\ crossed \in Nat /\ timeouts + crossed <= MaxEvents

\* There are never more loop threads than one, one for each join that ran into its timeout and
\* one for each call of start or stop that began inside another caller's: although start looks
\* at the unlocked _running only, callers who take turns keep to one thread, and a pair of
\* calls that cross adds at most one, whatever each reads of the other's half-done work.
OverlapIsOwed == Cardinality({t \in Thread : Alive(t)}) <= 1 + timeouts + crossed

\* While the loop runs, the identity comes to rest (every value within Threshold of its
\* target, every goal taken over) and the capsules end up with its values and goals, although
\* the loop, a loop left over from before and the user write them without a common lock.
LoopKeepsUp == <>[]running => <>[](Settled /\ capsule = Self)

\* What is explored is not on the blacklist (agent_main.py:47: blacklist has highest priority).
BlacklistRespected == [][explored' \cap blacklist \subseteq explored]_vars
=============================================================================
