-------------------------- MODULE RouteGovernance --------------------------
(***************************************************************************)
(* Route metadata and policies under governance: the SQLite rows, the      *)
(* change logs, the copy each process holds in memory, and the commands    *)
(* that move approved changes from one to the other.                       *)
(*                                                                         *)
(* Two kinds of process share the database: a command of the CLI starts    *)
(* from the shipped metadata and loads the database, the web server keeps  *)
(* its memory from request to request.  Reads are single SELECTs and see   *)
(* what is committed; writes happen in BEGIN IMMEDIATE transactions, which *)
(* exclude each other and end in a commit, a rollback or a crash.          *)
(***************************************************************************)
EXTENDS MetaOptimizer

CONSTANTS Cli, Web,         \* processes
          Offered,          \* the commands given to each process
          Shipped,          \* registry and policy of the package
          Stored,           \* rows that bootstraps write: legacy files or shipped
          RegistryFiles,    \* files an operator may apply
          PolicyFiles,
          WeightReports,    \* suggested weights of a report, by route
          ProfileChanges,   \* changes an operator may ask for in one profile
          Telemetries,      \* what may be found in the event log
          Tasks,            \* tasks a route may be selected for
          AuditRequests,    \* fields of the audit policy to set, and to what
          RoundRequests,    \* values asked for as mps_round_limit
          SelectionBound,   \* bound: proposals named in one decision
          CommandBound      \* bound: commands in a behaviour, selections apart

Procs == Cli \cup Web

Empty == [r \in {} |-> None]
AuditTriggerPolicy == [enabled : BOOLEAN, on_degraded : BOOLEAN]
IsRows(rows) ==
  /\ DOMAIN rows = {"registry", "policy", "audit", "rounds"}
  /\ IsRegistry(rows.registry)
  /\ rows.policy \in RoutePolicy \cup {None}
  /\ rows.audit \in AuditTriggerPolicy
  /\ rows.rounds \in 0 .. 3                     \* mps_round_limit, 0 without a row

(* What the options of route capabilities update ask for: a score, a score *)
(* to clear, families to mark unsupported and to unmark.                   *)
ProfileChange == [route : RouteName, family : Families \cup {None}, score : Nat,
                  clear : Families \cup {None}, mark : SUBSET Families, unmark : SUBSET Families]

ASSUME GovernanceAssumption ==
  /\ Cli \cap Web = {} /\ None \notin Procs
  /\ DOMAIN Offered = Procs
  /\ \A p \in Web : Offered[p] \subseteq {"select", "decide", "review"}
  /\ \A p \in Cli : Offered[p] \subseteq {"select", "decide", "review", "optimize", "registry",
                                         "policy", "weights", "profiles", "audit", "rounds"}
  /\ Shipped = [registry |-> Shipped.registry, policy |-> Shipped.policy]
  /\ IsRegistry(Shipped.registry) /\ IsRows(Stored)
  /\ DOMAIN Shipped.registry # {} /\ DOMAIN Stored.registry # {}
  /\ {Shipped.policy, Stored.policy} \subseteq RoutePolicy /\ None \notin RoutePolicy
  /\ \A file \in RegistryFiles : IsRegistry(file)
  /\ \A file \in PolicyFiles : file \in RoutePolicy
  /\ \A report \in WeightReports :
       DOMAIN report \subseteq RouteName /\ report \in [DOMAIN report -> Nat]
  /\ \A change \in ProfileChanges : change \in ProfileChange
  /\ \A ev \in Telemetries : ev \in Seq(TelemetryEvent)
  /\ \A t \in Tasks : t \in TaskInputs
  /\ AuditRequests \subseteq [field : {"enabled", "on_degraded"}, to : BOOLEAN]
  /\ RoundRequests \subseteq Nat /\ {SelectionBound, CommandBound} \subseteq Nat

VARIABLES db,      \* committed rows: routes, routing policy, audit and synthesis policies
          tx,      \* the write transaction: its process and its view of the rows
          log,     \* route_change_log and policy_change_log, one entry per transaction
          mem,     \* ROUTE_REGISTRY and the routing policy of each process
          bundle,  \* the latest proposal bundle
          review,  \* the review record that is applied
          pc, cmd, \* the step and the locals of each process
          commands \* how many commands were given, for the bound

vars == <<db, tx, log, mem, bundle, review, pc, cmd, commands>>

-----------------------------------------------------------------------------
(* Types *)

Kinds == {"registry", "policy", "weights", "profiles", "audit", "rounds"}
Steps == {"idle", "registry", "policy", "weights", "profiles", "body", "load_profiles",
          "begin", "write"}
NoTx == [owner |-> None, rows |-> None]

(* The types of the rows, of the view of a transaction, of the logs and of *)
(* what processes hold.                                                    *)
TypeOK ==
  /\ IsRows(db)
  /\ tx # NoTx => tx.owner \in Procs /\ IsRows(tx.rows)
  /\ \A i \in DOMAIN log : DOMAIN log[i] \subseteq Kinds
  /\ \A p \in Procs : IsRegistry(mem[p].registry) /\ mem[p].policy \in RoutePolicy
  /\ pc \in [Procs -> Steps] /\ \A p \in Procs : cmd[p].boot \in BOOLEAN

-----------------------------------------------------------------------------
(* The rows *)

blank_profile == [scores |-> [f \in Families |-> None], unsupported |-> {}]

(* Weights and profiles of the rows; what has no row has the defaults. *)
load_route_weights(reg) ==
  [n \in RouteName |-> IF ~n.detached /\ n.base \in DOMAIN reg THEN reg[n.base].weight ELSE Full]

load_route_capability_profiles(reg) ==
  [n \in RouteName |-> IF ~n.detached /\ n.base \in DOMAIN reg
                       THEN [scores |-> reg[n.base].scores,
                             unsupported |-> reg[n.base].unsupported]
                       ELSE blank_profile]

(* Every row is reset and the listed ones are set: a name without a row    *)
(* changes nothing.                                                        *)
save_route_weights(reg, weights) ==
  [r \in DOMAIN reg |-> [reg[r] EXCEPT !.weight = weights[Plain(r)]]]

save_route_capability_profiles(reg, profiles) ==
  [r \in DOMAIN reg |-> [reg[r] EXCEPT !.scores = profiles[Plain(r)].scores,
                                       !.unsupported = profiles[Plain(r)].unsupported]]

FallbacksAreKnown(reg) == \A r \in DOMAIN reg : reg[r].fallback \in DOMAIN reg \cup {None}
normalize_route_registry_payload(file) == DOMAIN file # {} /\ FallbacksAreKnown(file)

(* A new registry replaces all rows; its scores and marks come with it. *)
save_route_registry(rows, value) == [rows EXCEPT !.registry = value]
save_route_policy(rows, value) == [rows EXCEPT !.policy = value]
save_audit_trigger_policy(rows, value) == [rows EXCEPT !.audit = value]
save_mps_policy(rows, value) == [rows EXCEPT !.rounds = value]

(* One kind of change in the rows of a transaction. *)
save(rows, kind, value) ==
  CASE kind = "registry" -> save_route_registry(rows, value)
    [] kind = "policy"   -> save_route_policy(rows, value)
    [] kind = "weights"  -> [rows EXCEPT !.registry = save_route_weights(@, value)]
    [] kind = "profiles" -> [rows EXCEPT !.registry = save_route_capability_profiles(@, value)]
    [] kind = "audit"    -> save_audit_trigger_policy(rows, value)
    [] kind = "rounds"   -> save_mps_policy(rows, value)

(* The payload of one kind in the rows, as the change log keeps it. *)
payload(rows, kind) ==
  CASE kind = "weights"  -> load_route_weights(rows.registry)
    [] kind = "profiles" -> load_route_capability_profiles(rows.registry)
    [] OTHER -> rows[kind]

(* What a process makes of the rows it reads: apply_route_registry,        *)
(* apply_route_policy, apply_route_weights, apply_route_capability_profiles.*)
apply_route(m, rows, kind) ==
  CASE kind = "registry" -> [m EXCEPT !.registry = rows.registry]
    [] kind = "policy"   -> [m EXCEPT !.policy = rows.policy]
    [] kind = "weights"  -> [m EXCEPT !.registry =
                               save_route_weights(@, load_route_weights(rows.registry))]
    [] kind = "profiles" -> [m EXCEPT !.registry =
                               save_route_capability_profiles(@,
                                 load_route_capability_profiles(rows.registry))]
    [] OTHER -> m

-----------------------------------------------------------------------------
(* Steps of a process *)

goto(p, to) == pc' = [pc EXCEPT ![p] = to]
set(p, c) == cmd' = [cmd EXCEPT ![p] = c]
Idle == [op |-> "none", boot |-> FALSE, todo |-> <<>>, value |-> None]
proceed(p, to, c) == goto(p, to) /\ set(p, c) /\ UNCHANGED mem

(* The locals of a command that has something to write. *)
planned(c, todo, value) == [c EXCEPT !.todo = todo, !.value = value]

(* A CLI process ends with its command; the next one is a new process that *)
(* imports the shipped metadata.                                           *)
kept(p, m) == IF p \in Cli THEN Shipped ELSE m
stop(p) == /\ goto(p, "idle") /\ set(p, Idle)
           /\ mem' = [mem EXCEPT ![p] = kept(p, @)]

(* The rows a step is about to read for the first time. *)
reads(p) == CASE pc[p] = "registry" \/ (pc[p] = "body" /\ cmd[p].op = "review") -> "registry"
              [] pc[p] \in {"policy", "begin"} -> "policy"
              [] OTHER -> "nothing"
Empties(p) == \/ reads(p) = "registry" /\ db.registry = Empty
              \/ reads(p) = "policy" /\ db.policy = None

(* A reader without rows is about to write the stored ones. *)
NoticeEmpty(p) ==
  /\ Empties(p) /\ ~cmd[p].boot
  /\ set(p, [cmd[p] EXCEPT !.boot = TRUE])
  /\ UNCHANGED <<db, tx, log, mem, bundle, review, pc, commands>>

bootstrap_rows(rows, kind) ==
  [rows EXCEPT ![kind] = IF @ = (IF kind = "registry" THEN Empty ELSE None)
                         THEN Stored[kind] ELSE @]

(* _bootstrap_route_metadata_from_legacy_json and the same for the policy. *)
Bootstrap(p) ==
  /\ cmd[p].boot /\ tx.owner = None
  /\ db' = bootstrap_rows(db, reads(p))
  /\ set(p, [cmd[p] EXCEPT !.boot = FALSE])
  /\ UNCHANGED <<tx, log, mem, bundle, review, pc, commands>>

Ready(p) == ~cmd[p].boot /\ ~Empties(p)

(* main() and run_task load registry, policy, weights and profiles, one    *)
(* SELECT each; so does a rollback.                                        *)
refresh(p) ==
  LET next == [registry |-> "policy", policy |-> "weights", weights |-> "profiles"]
  IN /\ pc[p] \in {"registry", "policy", "weights", "profiles"} /\ Ready(p)
     /\ LET m == apply_route(mem[p], db, pc[p])
            done == pc[p] = "profiles" /\ cmd[p].op = "none"
        IN /\ mem' = [mem EXCEPT ![p] = IF done THEN kept(p, m) ELSE m]
           /\ goto(p, IF pc[p] # "profiles" THEN next[pc[p]] ELSE IF done THEN "idle" ELSE "body")
     /\ UNCHANGED cmd
     /\ UNCHANGED <<db, tx, log, bundle, review, commands>>

(* A CLI command is a new process; the web server decides and applies      *)
(* reviews with the memory it has and runs tasks after a refresh.          *)
Start(p, op) ==
  /\ pc[p] = "idle"
  /\ op # "select" => commands < CommandBound
  /\ commands' = IF op # "select" THEN commands + 1 ELSE commands
  /\ set(p, [Idle EXCEPT !.op = op])
  /\ goto(p, IF p \in Cli \/ op = "select" THEN "registry" ELSE "body")
  /\ UNCHANGED <<db, tx, log, mem, bundle, review>>

(* The command reports what select_route returns. *)
select_route_command(p) ==
  /\ pc[p] = "body" /\ cmd[p].op = "select" /\ Ready(p)
  /\ stop(p)
  /\ UNCHANGED <<db, tx, log, bundle, review, commands>>

(* Proposals from the telemetry there is; saved as the latest bundle. *)
run_meta_optimizer(p) ==
  /\ pc[p] = "body" /\ cmd[p].op = "optimize" /\ Ready(p)
  /\ \E ev \in Telemetries :
       bundle' = [events |-> ev,
                  proposals |-> build_optimization_proposals(mem[p].registry,
                                  load_route_capability_profiles(db.registry), ev)]
  /\ stop(p)
  /\ UNCHANGED <<db, tx, log, review, commands>>

selections(proposals) == {S \in SUBSET proposals : Cardinality(S) <= SelectionBound}

review_optimization_proposals(p) ==
  /\ pc[p] = "body" /\ cmd[p].op = "decide"
  /\ \E decision \in {"approved", "rejected", "deferred"}, selected \in selections(bundle.proposals) :
       review' = [events |-> bundle.events,
                  approved |-> approved_by(decision, selected, bundle.proposals)]
  /\ stop(p)
  /\ UNCHANGED <<db, tx, log, bundle, commands>>

(* register_route_metadata_proposal refuses a file it cannot normalise. *)
apply_route_registry_command(p) ==
  /\ pc[p] = "body" /\ cmd[p].op = "registry" /\ Ready(p)
  /\ \E file \in RegistryFiles :
       IF normalize_route_registry_payload(file)
       THEN proceed(p, "begin", planned(cmd[p], <<"registry">>, [registry |-> file]))
       ELSE stop(p)
  /\ UNCHANGED <<db, tx, log, bundle, review, commands>>

apply_route_policy_command(p) ==
  /\ pc[p] = "body" /\ cmd[p].op = "policy" /\ Ready(p)
  /\ \E file \in PolicyFiles :
       proceed(p, "begin", planned(cmd[p], <<"policy">>, [policy |-> file]))
  /\ UNCHANGED <<db, tx, log, bundle, review, commands>>

(* The weights of a report replace those the process holds; zero counts as *)
(* none.  Every route it names must be known.                              *)
reported_weights(weights, report) ==
  [n \in RouteName |-> IF n \notin DOMAIN report THEN weights[n]
                       ELSE IF report[n] = 0 THEN Full ELSE report[n]]

route_weights_command(p) ==
  /\ pc[p] = "body" /\ cmd[p].op = "weights"
  /\ \E report \in WeightReports :
       IF DOMAIN report # {} /\ \A n \in DOMAIN report : route_by_name(mem[p].registry, n)
       THEN proceed(p, "begin", planned(cmd[p], <<"weights">>,
              [weights |-> reported_weights(load_route_weights(mem[p].registry), report)]))
       ELSE stop(p)
  /\ UNCHANGED <<db, tx, log, bundle, review, commands>>

(* A score lifts the mark of its family, a mark clears it. *)
changed_profile(profile, change) ==
  LET scored == IF change.family = None THEN profile.scores
                ELSE [profile.scores EXCEPT ![change.family] = change.score]
  IN [scores |-> [f \in Families |-> IF f \in change.mark \cup {change.clear} THEN None ELSE scored[f]],
      unsupported |-> ((profile.unsupported \ {change.family}) \cup change.mark) \ change.unmark]

changed_profiles(profiles, change) ==
  [profiles EXCEPT ![change.route] = changed_profile(@, change)]

route_capabilities_command(p) ==
  /\ pc[p] = "body" /\ cmd[p].op = "profiles"
  /\ \E change \in ProfileChanges :
       IF /\ route_by_name(mem[p].registry, change.route)
          /\ {change.family, change.clear} # {None} \/ change.mark \cup change.unmark # {}
       THEN proceed(p, "begin", planned(cmd[p], <<"profiles">>,
              [profiles |-> changed_profiles(load_route_capability_profiles(db.registry), change)]))
       ELSE stop(p)
  /\ UNCHANGED <<db, tx, log, bundle, review, commands>>

(* The current policy with one field changed. *)
set_audit_trigger_policy_command(p) ==
  /\ pc[p] = "body" /\ cmd[p].op = "audit"
  /\ \E request \in AuditRequests :
       proceed(p, "begin", planned(cmd[p], <<"audit">>,
              [audit |-> [db.audit EXCEPT ![request.field] = request.to]]))
  /\ UNCHANGED <<db, tx, log, bundle, review, commands>>

(* At least one round and at most three. *)
validate_mps_policy_value(value) == value \in 1 .. 3

set_mps_policy_command(p) ==
  /\ pc[p] = "body" /\ cmd[p].op = "rounds"
  /\ \E value \in RoundRequests :
       IF validate_mps_policy_value(value)
       THEN proceed(p, "begin", planned(cmd[p], <<"rounds">>, [rounds |-> value]))
       ELSE stop(p)
  /\ UNCHANGED <<db, tx, log, bundle, review, commands>>

(* _apply_route_review_metadata loads the weights and then the profiles,   *)
(* outside of any transaction.                                             *)
LoadWeights(p) ==
  /\ pc[p] = "body" /\ cmd[p].op = "review" /\ Ready(p)
  /\ IF review.approved = {} THEN stop(p)
     ELSE proceed(p, "load_profiles",
            [cmd[p] EXCEPT !.value = [approved |-> review.approved, events |-> review.events,
                                      weights |-> load_route_weights(db.registry)]])
  /\ UNCHANGED <<db, tx, log, bundle, review, commands>>

(* All approved entries are validated, then applied to what was loaded. *)
LoadProfiles(p) ==
  /\ pc[p] = "load_profiles" /\ Ready(p)
  /\ LET v == cmd[p].value
         loaded == load_route_capability_profiles(db.registry)
     IN IF ~entries_valid(mem[p].registry, v.approved) THEN stop(p)
        ELSE proceed(p, "begin", planned(cmd[p], <<"weights", "profiles">>,
                  [approved |-> v.approved, events |-> v.events,
                   loaded |-> [weights |-> v.weights, profiles |-> loaded],
                   weights |-> approved_weights(v.weights, v.approved),
                   profiles |-> approved_profiles(loaded, v.approved)]))
  /\ UNCHANGED <<db, tx, log, bundle, review, commands>>

-----------------------------------------------------------------------------
(* The transaction: RouteRepo._apply_metadata_change and                   *)
(* PolicyRepo._apply_policy_change                                         *)

Begin(p) ==
  /\ pc[p] = "begin" /\ Ready(p) /\ tx.owner = None
  /\ tx' = [owner |-> p, rows |-> db]
  /\ goto(p, "write")
  /\ UNCHANGED <<db, log, mem, bundle, review, cmd, commands>>

(* The busy timeout passes: the command ends with "database is locked". *)
Locked(p) ==
  /\ pc[p] = "begin" /\ tx.owner # None
  /\ stop(p)
  /\ UNCHANGED <<db, tx, log, bundle, review, commands>>

(* One target is saved, then taken over into memory from the transaction's *)
(* own view.                                                               *)
Save(p) ==
  /\ pc[p] = "write" /\ cmd[p].todo # <<>>
  /\ LET kind == Head(cmd[p].todo)
         rows == save(tx.rows, kind, cmd[p].value[kind])
     IN /\ tx' = [tx EXCEPT !.rows = rows]
        /\ mem' = [mem EXCEPT ![p] = apply_route(@, rows, kind)]
  /\ set(p, [cmd[p] EXCEPT !.todo = Tail(@)])
  /\ UNCHANGED <<db, log, bundle, review, pc, commands>>

Targets(op) == IF op = "review" THEN {"weights", "profiles"} ELSE {op}

(* Fault: the registry's entry stands for weights and profiles too. *)
change_log_entry_first(op, rows) ==
  LET logged == IF op = "review" THEN {"weights"} ELSE {op}
  IN [kind \in logged |-> payload(rows, kind)]

change_log_entry(op, rows) == [kind \in Targets(op) |-> payload(rows, kind)]

Commit(p) ==
  /\ pc[p] = "write" /\ cmd[p].todo = <<>>
  /\ db' = tx.rows
  /\ log' = Append(log, change_log_entry(cmd[p].op, tx.rows))
  /\ tx' = NoTx
  /\ stop(p)
  /\ UNCHANGED <<bundle, review, commands>>

(* Fault: what was already taken over into memory stays there. *)
Rollback_keeping_memory(p) ==
  /\ pc[p] = "write"
  /\ tx' = NoTx
  /\ stop(p)
  /\ UNCHANGED <<db, log, bundle, review, commands>>

(* A statement or the commit fails.  Route metadata is then loaded into    *)
(* memory again; policies are not kept in memory.                          *)
Rollback(p) ==
  /\ pc[p] = "write"
  /\ tx' = NoTx
  /\ set(p, Idle)
  /\ goto(p, IF cmd[p].op \in {"audit", "rounds"} THEN "idle" ELSE "registry")
  /\ UNCHANGED <<db, log, mem, bundle, review, commands>>

Crash(p) ==
  /\ pc[p] # "idle"
  /\ goto(p, "idle") /\ set(p, Idle)
  /\ mem' = [mem EXCEPT ![p] = Shipped]
  /\ tx' = IF tx.owner = p THEN NoTx ELSE tx
  /\ UNCHANGED <<db, log, bundle, review, commands>>

-----------------------------------------------------------------------------
(* No routes and no routing policy yet.  The first read or write of the    *)
(* other two policies writes those of their legacy files, so that nobody   *)
(* ever reads anything else.                                               *)
Init ==
  /\ db = [Stored EXCEPT !.registry = Empty, !.policy = None]
  /\ tx = NoTx
  /\ log = <<>>
  /\ mem = [p \in Procs |-> Shipped]
  /\ bundle = [events |-> <<>>, proposals |-> {}]
  /\ review = [events |-> <<>>, approved |-> {}]
  /\ pc = [p \in Procs |-> "idle"]
  /\ cmd = [p \in Procs |-> Idle]
  /\ commands = 0

Command(p) ==
  \/ select_route_command(p)
  \/ run_meta_optimizer(p)
  \/ review_optimization_proposals(p)
  \/ apply_route_registry_command(p)
  \/ apply_route_policy_command(p)
  \/ route_weights_command(p)
  \/ route_capabilities_command(p)
  \/ set_audit_trigger_policy_command(p)
  \/ set_mps_policy_command(p)
  \/ LoadWeights(p)
  \/ LoadProfiles(p)

Step(p) ==
  \/ NoticeEmpty(p)
  \/ Bootstrap(p)
  \/ refresh(p)
  \/ Command(p)
  \/ Begin(p)
  \/ Locked(p)
  \/ Save(p)
  \/ Commit(p)
  \/ Rollback(p)

Next ==
  \E p \in Procs : \/ \E op \in Offered[p] : Start(p, op)
                   \/ Step(p)
                   \/ Crash(p)

Spec == Init /\ [][Next]_vars

-----------------------------------------------------------------------------
(* Properties *)

(* The committed routes never name a fallback that is not among them: the  *)
(* loader of every process refuses such rows (normalize_route_registry_    *)
(* payload), so that no command could start any more.                      *)
RoutesAreClosed == FallbacksAreKnown(db.registry)

(* The last of the first n entries that has a payload of this kind, or 0. *)
Latest(entries, kind, n) == Max({i \in 1 .. n : kind \in DOMAIN entries[i]} \cup {0})
Logged(entries, kind, n, before) ==
  IF Latest(entries, kind, n) = 0 THEN before ELSE entries[Latest(entries, kind, n)][kind]

(* The rows that the first n entries of change logs describe: of each      *)
(* kind the latest payload counts, and of weights and profiles those that  *)
(* came after the registry.                                                *)
Replay(entries, n) ==
  LET logged(kind, before) == Logged(entries, kind, n, before)
      later(kind) == Latest(entries, kind, n) > Latest(entries, "registry", n)
      routes == logged("registry", Stored.registry)
      weighed == IF later("weights")
                 THEN save_route_weights(routes, logged("weights", None)) ELSE routes
      profiled == IF later("profiles")
                  THEN save_route_capability_profiles(weighed, logged("profiles", None))
                  ELSE weighed
  IN [registry |-> profiled,
      policy |-> logged("policy", Stored.policy),
      audit |-> logged("audit", Stored.audit),
      rounds |-> logged("rounds", Stored.rounds)]

(* The change logs tell how the rows came to be: applying their after      *)
(* payloads to the stored metadata yields the committed rows, whatever     *)
(* processes bootstrapped, failed, rolled back or crashed in between.      *)
LogReplaysToTruth ==
  db.registry # Empty =>
    LET rows == Replay(log, Len(log))
    IN db = [rows EXCEPT !.policy = IF db.policy = None THEN None ELSE @]

(* Between its commands and when it acts, a process holds nothing in       *)
(* memory that was never committed: the routes, their weights, their       *)
(* profiles and the policy it selects with are each those of some          *)
(* committed state, or the shipped ones, although a transaction takes over *)
(* every change before it commits.                                         *)
MemoryWasCommitted ==
  LET past == {Shipped} \cup {Replay(log, n) : n \in 0 .. Len(log)}
      routes == {rows.registry : rows \in past}
      weights == {load_route_weights(reg) : reg \in routes}
      profiles == {load_route_capability_profiles(reg) : reg \in routes}
  IN \A p \in Procs : pc[p] \in {"idle", "body"} =>
       /\ mem[p].policy \in {rows.policy : rows \in past}
       /\ \E reg \in routes, w \in weights, f \in profiles :
            mem[p].registry = save_route_capability_profiles(save_route_weights(reg, w), f)

ReviewCommits(p) == pc[p] = "write" /\ cmd[p].op = "review" /\ log' # log /\ pc'[p] = "idle"

(* Every route has the weight, and every family of it the score and the    *)
(* mark, that was approved, or else the one it had.                        *)
WeightApplied(approved, r, was, now) ==
  LET mine == {q \in approved : q.type = "route_weight" /\ q.route = Plain(r)}
  IN IF mine = {} THEN now.weight = was.weight ELSE \E q \in mine : now.weight = q.weight
CapabilityApplied(approved, r, f, was, now) ==
  LET mine == {q \in approved : q.type = "route_capability" /\ q.route = Plain(r) /\ q.family = f}
      q == CHOOSE q \in mine : TRUE
  IN IF mine = {} THEN now.scores[f] = was.scores[f] /\ (f \in now.unsupported <=> f \in was.unsupported)
     ELSE now.scores[f] = q.score /\ (f \in now.unsupported <=> q.unsupported)

AppliedExactly(approved) ==
  /\ DOMAIN db'.registry = DOMAIN db.registry
  /\ \A r \in DOMAIN db.registry :
       /\ WeightApplied(approved, r, db.registry[r], db'.registry[r])
       /\ \A f \in Families : CapabilityApplied(approved, r, f, db.registry[r], db'.registry[r])

(* When a reviewed change commits and nobody changed the rows since they   *)
(* were loaded, exactly the approved suggestions have taken effect: every  *)
(* other weight, score and mark is as before.                              *)
ReviewChangesWhatWasApproved ==
  [][\A p \in Procs :
       /\ ReviewCommits(p)
       /\ load_route_weights(db.registry) = cmd[p].value.loaded.weights
       /\ load_route_capability_profiles(db.registry) = cmd[p].value.loaded.profiles
       => AppliedExactly(cmd[p].value.approved)]_vars

(* The meta optimizer comes to rest: a capability suggestion that was      *)
(* approved and committed is not made again from the same telemetry.       *)
SuggestionsSettle ==
  [][\A p \in Procs :
       ReviewCommits(p) =>
         \A q \in cmd[p].value.approved :
           q.type = "route_capability" /\ ~q.route.detached /\ q.route.base \in DOMAIN db'.registry
           => \A again \in _build_route_capability_proposals(mem'[p].registry,
                              load_route_capability_profiles(db'.registry), cmd[p].value.events) :
                again.route # q.route \/ again.family # q.family]_vars

Selecting == {p \in Procs : pc[p] = "body" /\ cmd[p].op = "select"}
Overrides == Executors \cup {None}

(* A task that has run before (its state names required capabilities), in  *)
(* automatic mode or with an executor override, is given a route that      *)
(* supports its family whenever the process knows one, even if the         *)
(* metadata changed while the process was loading it.                      *)
SupportedRouteIsFound ==
  \A p \in Selecting : \A t \in Tasks, o \in Overrides :
    LET reg == mem[p].registry
        chosen == select_route(reg, mem[p].policy, t, o, None, DEFAULT_EXECUTOR)
    IN /\ t.required # None /\ (o # None \/ t.mode = "auto")
       /\ \E r \in DOMAIN reg : t.family \notin reg[r].unsupported
       => t.family \notin reg[chosen.base].unsupported

=============================================================================
