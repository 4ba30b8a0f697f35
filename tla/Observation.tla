---------------------------- MODULE Observation ----------------------------
(***************************************************************************)
(* The observation side (core/observation): the ON_EPISODE_END event, its  *)
(* two subscribers that matter, and where the result goes.  The trajectory *)
(* recorder, subscribed first, files the current episode; then the hub     *)
(* replays the newest one, builds and registers its causal graph, runs     *)
(* governance V2 over all episodes and V3 over the statistics, and injects *)
(* V3's policy into the weights, PlannerV2 and the goal generator.  The    *)
(* last two belong to the shared runtime context: they come after it, may  *)
(* be missing when a policy is injected, and go when it is replaced.  emit *)
(* calls the subscribers outside its lock, in the emitting thread.         *)
(*                                                                         *)
(* The recorder, the graph builder and the governance hubs are external.   *)
(* A policy is its gene_amplification_factor in tenths; mediation_alpha,   *)
(* which is only handed on, is left out, and so is the commit layer V2     *)
(* would tell of a drift: it passes no fitness to find one from.           *)
(***************************************************************************)
EXTENDS Naturals, Sequences

CONSTANTS
    Emitter,      \* threads that emit ON_EPISODE_END
    Gene,         \* gene ids met in the episodes
    Amp,          \* amplification factors V3 may come up with, in tenths
    MaxEpisodes   \* bound: ON_EPISODE_END events emitted

ASSUME ObservationAssumption == Amp \subseteq 10..20 /\ MaxEpisodes \in Nat

VARIABLES
    episodes,   \* TrajectoryRecorder._episodes: has the episode steps?
    graphs,     \* _causal_graphs, as the number of the episode each was built from
    loaded,     \* CausalQueryAPI: [graph index -> episode number]
    queued,     \* genes with a proposal in the commit queue
    policies,   \* the policies of _governance_v3_states, 0 for a state without one
    weights,    \* policy held by weight allocator and drift controller
    planner,    \* PlannerV2.search_depth, 0 without a planner
    goals,      \* CuriosityGoalGenerator: [curiosity_weight, goal_persistence] in hundredths
    newSinks,   \* history: of planner and goals, those that were not there when the weights
                \* took the latest policy, or are replaced since
    emission,   \* [emitter -> where its emission is]
    replayed,   \* [emitter -> number of the episode it replayed]
    held,       \* [emitter -> the policy it is injecting]
    emitted,    \* _emit_count, of these events
    clean       \* history: no two emissions overlapped, no recording or injection raised

hubVars == <<episodes, graphs, loaded, queued, policies>>
sinkVars == <<weights, planner, goals, newSinks>>
obsVars == <<hubVars, sinkVars, emission, replayed, held, emitted, clean>>

Goals(weight, persistence) == [weight |-> weight, persistence |-> persistence]
NoGoals == Goals(0, 0)
FreshGoals == Goals(100, 100)

Clip(lo, hi, x) == IF x < lo THEN lo ELSE IF x > hi THEN hi ELSE x

\* PlannerV2.inject_policy: search depth from the amplification factor; 1.4 - 1.0
\* is just below 0.4 as a double, and int() cuts it off.
SearchDepth(amp) == IF amp = 14 THEN 6 ELSE Clip(3, 10, amp - 7)

\* CuriosityGoalGenerator.inject_policy: the weight from the amplification
\* factor, the persistence from the suppression ratio (both in tenths).
CuriosityWeight(amp) == IF amp - 10 > 3 THEN 100 + (amp - 10) * 5 ELSE 100
GoalPersistence(ratio) == IF ratio > 5 THEN Clip(30, 100, 100 - ratio * 8) ELSE 100

ObsTypeOK ==
    /\ episodes \in Seq(BOOLEAN) /\ Len(episodes) <= MaxEpisodes
    /\ graphs \in Seq(1..MaxEpisodes)
    /\ DOMAIN loaded \subseteq DOMAIN graphs
    /\ queued \subseteq Gene
    /\ policies \in Seq(Amp \union {0})
    /\ weights \in Amp \union {0}
    /\ planner \in {0} \union 3..10
    /\ goals.weight \in {0} \union 100..150 /\ goals.persistence \in {0} \union 30..100
    /\ newSinks \subseteq {"planner", "goals"}
    /\ emission \in [Emitter -> {"idle", "hub", "load", "v2", "v3", "weights", "planner", "goals"}]
    /\ replayed \in [Emitter -> 0..MaxEpisodes]
    /\ held \in [Emitter -> Amp \union {0}]
    /\ emitted \in 0..MaxEpisodes
    /\ clean \in BOOLEAN

ObsInit ==
    /\ episodes = <<>>
    /\ graphs = <<>>
    /\ loaded = <<>>
    /\ queued = {}
    /\ policies = <<>>
    /\ weights = 0
    /\ planner = 0
    /\ goals = NoGoals
    /\ newSinks = {}
    /\ emission = [e \in Emitter |-> "idle"]
    /\ replayed = [e \in Emitter |-> 0]
    /\ held = [e \in Emitter |-> 0]
    /\ emitted = 0
    /\ clean = TRUE

EmissionTo(e, where) == emission' = [emission EXCEPT ![e] = where]
Quiet == \A e \in Emitter : emission[e] = "idle"

\* register_planner: a fresh planner, without a policy until the next episode.
RegisterPlanner ==
    /\ planner' = 5
    /\ newSinks' = newSinks \union {"planner"}
    /\ UNCHANGED <<hubVars, weights, goals, emission, replayed, held, emitted, clean>>

\* initialize() comes to its sixth layer: a goal generator without a policy.
CreateGoals ==
    /\ goals' = FreshGoals
    /\ newSinks' = newSinks \union {"goals"}
    /\ UNCHANGED <<hubVars, weights, planner, emission, replayed, held, emitted, clean>>

\* A new context has neither yet.
ReplaceContext ==
    /\ planner' = 0 /\ goals' = NoGoals
    /\ newSinks' = {"planner", "goals"}
    /\ UNCHANGED <<hubVars, weights, emission, replayed, held, emitted, clean>>

\* emit, first subscriber: the recorder files the current episode, or raises,
\* which emit swallows.
EpisodeEnds(e) ==
    /\ emission[e] = "idle"
    /\ emitted < MaxEpisodes
    /\ emitted' = emitted + 1
    /\ \/ /\ \E steps \in BOOLEAN : episodes' = Append(episodes, steps)
          /\ clean' = (clean /\ Quiet)
       \/ /\ clean' = FALSE
          /\ UNCHANGED episodes
    /\ EmissionTo(e, "hub")
    /\ UNCHANGED <<graphs, loaded, queued, policies, sinkVars, replayed, held>>

\* Mutant of Replay: the hub is subscribed before the recorder, and replays
\* the episode before the one that ended.
ReplayFirst == Len(episodes) - 1

\* replay_episode(-1)
Replay == Len(episodes)

\* Second subscriber: nothing to do without steps; building the graph may raise.
BuildGraph(e) ==
    /\ emission[e] = "hub"
    /\ \/ /\ Replay > 0 /\ episodes[Replay]
          /\ graphs' = Append(graphs, Replay)
          /\ replayed' = [replayed EXCEPT ![e] = Replay]
          /\ EmissionTo(e, "load")
       \/ /\ EmissionTo(e, "idle")
          /\ UNCHANGED <<graphs, replayed>>
    /\ UNCHANGED <<episodes, loaded, queued, policies, sinkVars, held, emitted, clean>>

\* ep_idx = len(graphs) - 1, read after the append; load_episode may raise.
LoadGraph(e) ==
    /\ emission[e] = "load"
    /\ \/ /\ loaded' = [i \in DOMAIN loaded \union {Len(graphs)} |->
                           IF i = Len(graphs) THEN replayed[e] ELSE loaded[i]]
          /\ EmissionTo(e, "v2")
       \/ /\ EmissionTo(e, "idle")
          /\ UNCHANGED loaded
    /\ UNCHANGED <<episodes, graphs, queued, policies, sinkVars, replayed, held, emitted, clean>>

\* One gene after the other: a changed weight becomes a proposal, and is queued
\* when the reviewer accepts it; an exception ends V2, not the callback.
GovernV2(e) ==
    /\ emission[e] = "v2"
    /\ \E accepted \in SUBSET Gene : queued' = queued \union accepted
    /\ EmissionTo(e, "v3")
    /\ UNCHANGED <<episodes, graphs, loaded, policies, sinkVars, replayed, held, emitted, clean>>

\* V3's state is appended; one without a policy injects nothing; it may raise.
GovernV3(e) ==
    /\ emission[e] = "v3"
    /\ \/ \E amp \in Amp \union {0} :
            /\ policies' = Append(policies, amp)
            /\ held' = [held EXCEPT ![e] = amp]
            /\ EmissionTo(e, IF amp = 0 THEN "idle" ELSE "weights")
       \/ EmissionTo(e, "idle") /\ UNCHANGED <<policies, held>>
    /\ UNCHANGED <<episodes, graphs, loaded, queued, sinkVars, replayed, emitted, clean>>

\* The weight allocator and the drift controller; an exception ends V3.
InjectWeights(e) ==
    /\ emission[e] = "weights"
    /\ \/ /\ weights' = held[e]
          /\ newSinks' = {s \in {"planner", "goals"} : IF s = "planner" THEN planner = 0
                                                     ELSE goals = NoGoals}
          /\ EmissionTo(e, "planner")
          /\ UNCHANGED clean
       \/ /\ EmissionTo(e, "idle")
          /\ clean' = FALSE
          /\ UNCHANGED <<weights, newSinks>>
    /\ UNCHANGED <<hubVars, planner, goals, replayed, held, emitted>>

\* if _ctx.planner is not None; what raises here is swallowed here.
InjectPlanner(e) ==
    /\ emission[e] = "planner"
    /\ \/ planner' = (IF planner = 0 THEN 0 ELSE SearchDepth(held[e])) /\ UNCHANGED clean
       \/ clean' = FALSE /\ UNCHANGED planner
    /\ EmissionTo(e, "goals")
    /\ UNCHANGED <<hubVars, weights, goals, newSinks, replayed, held, emitted>>

\* if _ctx.goal_generator is not None.  The suppression ratio is computed once more, from
\* the weights as they are now.
InjectGoals(e) ==
    /\ emission[e] = "goals"
    /\ \/ /\ goals = NoGoals
          /\ UNCHANGED <<goals, clean>>
       \/ /\ goals # NoGoals
          /\ \E ratio \in {0, 6, 10} :
               goals' = Goals(CuriosityWeight(held[e]), GoalPersistence(ratio))
          /\ UNCHANGED clean
       \/ clean' = FALSE /\ UNCHANGED goals
    /\ EmissionTo(e, "idle")
    /\ UNCHANGED <<hubVars, weights, planner, newSinks, replayed, held, emitted>>

ObsNext ==
    \/ RegisterPlanner \/ CreateGoals \/ ReplaceContext
    \/ \E e \in Emitter :
           \/ EpisodeEnds(e) \/ BuildGraph(e) \/ LoadGraph(e)
           \/ GovernV2(e) \/ GovernV3(e)
           \/ InjectWeights(e) \/ InjectPlanner(e) \/ InjectGoals(e)

ObsSpec == ObsInit /\ [][ObsNext]_obsVars

(***************************************************************************)
(* As long as emissions do not overlap and neither the recorder nor an     *)
(* injection fails, whatever else raises in the hub: what is analysed is   *)
(* the episode that ended, none twice; the query interface holds under a   *)
(* graph's index the episode the graph was built from; and between         *)
(* emissions the weights hold the latest policy there was, and so do the   *)
(* planner and the goal generator, unless there was none when the weights  *)
(* took it or it was replaced since: nothing gives it the policy later.    *)
(***************************************************************************)
EpisodesAligned ==
    clean =>
      /\ \A i, j \in DOMAIN graphs : i < j => graphs[i] < graphs[j]
      /\ \A e \in Emitter : emission[e] \notin {"idle", "hub"} => replayed[e] = Len(episodes)
      /\ \A i \in DOMAIN loaded : loaded[i] = graphs[i]
      /\ Quiet /\ weights # 0 =>
           /\ "goals" \notin newSinks => goals.weight = CuriosityWeight(weights)
           /\ "planner" \notin newSinks => planner = SearchDepth(weights)
           /\ \E i \in DOMAIN policies :
                policies[i] = weights /\ \A j \in i + 1..Len(policies) : policies[j] = 0
=============================================================================
