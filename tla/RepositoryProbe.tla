-------------------------- MODULE RepositoryProbe --------------------------
(***************************************************************************)
(* What an update reads of a registered checkout before anything is        *)
(* planned (updates.rs, git.rs).  A check reads, fetches, and publishes    *)
(* what the fetch reported; a preview reads again, without the network,    *)
(* what a check recorded.  Every answer is another Git process, and what   *)
(* the checkout configures may change between any two of them.             *)
(*                                                                         *)
(* Commits are those of one line, by number; 0 is none.                    *)
(***************************************************************************)
EXTENDS Naturals

\* What a checkout's own configuration can have Git run: for a transport the command for
\* ssh, a program of another setting, or the helper a remote's URL names; a filter for a
\* file's content; and a hook, or a monitor of the worktree.
Commands == {"ssh", "program"}
Transports == Commands \cup {"helper"}
Programs == Transports \cup {"filter", "hook"}
\* What the fetch is handed instead, whatever the checkout says by then: the user's own
\* command, and the transports that Git has built in and the user permits.
UserSshCommand == {"ssh"}
PermittedTransports == {"helper"}
Settled == UserSshCommand \cup PermittedTransports
\* What Git would run for a command, and what every command but a merge has it leave alone.
Susceptible(command) ==
  CASE command = "status" -> {"filter", "hook"}
    [] command = "fetch" -> Transports \cup {"hook"}
    [] command = "update-ref" -> {"hook"}
Suppressed == {"hook"}

Upstreams == {"remote", "local", "none"}    \* local: a branch of the checkout itself

VARIABLES
  head, tracking,   \* the branch, and the remote-tracking reference
  dirty,            \* tracked changes in the worktree or index
  untracked,        \* per candidate, the suffixes of files Git does not track
  named,            \* the registered path still leads to this checkout
  promisor,         \* a promisor remote is configured
  settings,         \* the programs the checkout's configuration names
  upstream,         \* what the branch is configured to follow
  symbolic,         \* the tracking reference is a symbolic one, to the branch
  remote,           \* what the upstream has
  probe,            \* what was asked for, where it is, and what it has read
  done,             \* what a check did beside reading and publishing
  since             \* what others arranged after it was asked for the last time

configuration == <<settings, upstream, symbolic, remote>>
checkout == <<head, tracking, dirty, untracked, named, promisor, configuration>>

Asked(way, kind, revision) ==
  [way |-> way, at |-> "open", kind |-> kind, revision |-> revision, error |-> "",
   local |-> 0, filters |-> {}, dirty |-> FALSE,
   untracked |-> [c \in DOMAIN untracked |-> {}], before |-> 0]

ProbeAt(place) == probe.at = place
Reads == UNCHANGED <<checkout, done, since>>
Goes(place) == probe' = [probe EXCEPT !.at = place]
Refused(code) == probe' = [probe EXCEPT !.at = "done", !.error = code]

\* What Git runs of the checkout's configuration by now, beside what it is told to leave.
\* Fault: a hook is told from a monitor.
RunsHooks(command, withheld) == (settings \cap Susceptible(command)) \ withheld
Runs(command, withheld) == (settings \cap Susceptible(command)) \ (Suppressed \cup withheld)

\* One question that can end the probe.
Gate(here, there, refuses, code) ==
  ProbeAt(here) /\ Reads /\ IF refuses THEN Refused(code) ELSE Goes(there)

\* rev-parse, which follows a symbolic reference
TrackingValue == IF symbolic THEN head ELSE tracking

-----------------------------------------------------------------------------
(* The probe, question by question *)

\* A row of an earlier release has no identity to compare; otherwise the directory is
\* pinned, and everything below asks Git there, whatever the path leads to by then.
OpenCheckout ==
  /\ ProbeAt("open") /\ Reads
  /\ \/ Refused("identity_unproven")
     \/ named /\ Goes("identity")
     \/ ~named /\ Refused("missing")

\* registered_checkout_path_is_current: something may stand at the path of a checkout that
\* was moved away, and then the pinned directory is still the one that was registered.
ProveIdentity ==
  ProbeAt("identity") /\ Reads /\ (Goes("partial") \/ (~named /\ Refused("missing")))

AskPromisor ==
  Gate("partial", IF probe.way = "check" THEN "transport" ELSE "head", promisor, "partial_clone")

AskTransport == Gate("transport", "head", settings \cap Commands # {}, "transport")

ReadHead == ProbeAt("head") /\ Reads /\ probe' = [probe EXCEPT !.at = "worktree", !.local = head]

\* configured_filter_settings: the filters that git status is told to do without, which
\* may leave it unknown whether a file has changed.
ReadFilters ==
  ProbeAt("worktree") /\ Reads
  /\ probe' = [probe EXCEPT !.at = "status", !.filters = settings \cap {"filter"}]
ReadWorktree ==
  /\ ProbeAt("status") /\ UNCHANGED <<checkout, since>>
  /\ done' = done \cup Runs("status", probe.filters)
  /\ \E unknown \in BOOLEAN :
       /\ unknown => probe.filters # {}
       /\ probe' = [probe EXCEPT !.at = "upstream", !.dirty = dirty \/ unknown,
                                  !.untracked = untracked]

\* upstream_of, and for a preview the comparison with what the check recorded
Follows == upstream # "none" /\ (upstream = "local" => TrackingValue # 0)
Answers(there) ==
  probe' = [probe EXCEPT !.at = there, !.kind = upstream, !.revision = TrackingValue]
ReadUpstream ==
  /\ ProbeAt("upstream") /\ Reads
  /\ \/ ~Follows /\ Refused("no_upstream")
     \/ Follows /\ probe.way = "check" /\ Answers(IF upstream = "local" THEN "done" ELSE "url")
     \/ Follows /\ probe.way = "preview"
          /\ IF upstream = probe.kind /\ TrackingValue = probe.revision
             THEN Goes("done") ELSE Refused("changed_after_preview")

AskUrl == Gate("url", "again", "helper" \in settings, "transport")
\* Fault: the first answer remembered.
AskTransportOnce == Gate("again", "kind", FALSE, "transport")
AskTransportAgain == Gate("again", "kind", settings \cap Commands # {}, "transport")

-----------------------------------------------------------------------------
(* fetch_upstream *)

AskKind == Gate("kind", "settle", symbolic, "fetch_failed")

\* direct_ref_object: a symbolic reference has no object of its own.
ReadTracking ==
  /\ ProbeAt("settle") /\ Reads
  /\ probe' = [probe EXCEPT !.at = "fetch", !.before = IF symbolic THEN 0 ELSE tracking]

\* The fetch writes no reference.  Git takes the rest of the configuration as it is by now.
Fetch ==
  /\ ProbeAt("fetch") /\ UNCHANGED <<checkout, since>>
  /\ done' = done \cup Runs("fetch", Settled)
  /\ \/ probe' = [probe EXCEPT !.at = "fetched", !.revision = remote]
     \/ Refused("fetch_failed")

AskPromisorAgain == Gate("fetched", "kind again", promisor, "fetch_failed")
\* Fault: the first answer remembered.
AskKindOnce == Gate("kind again", "publish", FALSE, "fetch_failed")
AskKindAgain == Gate("kind again", "publish", symbolic, "fetch_failed")

\* publish_or_accept_identical: update-ref --no-deref compares what the name resolves to
\* and writes the name itself.
PublishFetched ==
  /\ ProbeAt("publish")
  /\ IF TrackingValue = probe.before
     THEN /\ tracking' = probe.revision /\ symbolic' = FALSE
          /\ done' = done \cup Runs("update-ref", {})
                          \cup (IF symbolic THEN {"symbolic"} ELSE {})
          /\ Goes("done")
     ELSE /\ UNCHANGED <<tracking, symbolic, done>>
          /\ IF ~symbolic /\ tracking = probe.revision THEN Goes("done")
             ELSE Refused("fetch_failed")
  /\ UNCHANGED <<head, dirty, untracked, named, promisor, settings, upstream, remote, since>>

\* Any of these commands may fail, and that ends the probe.
Fetching == {"kind", "settle", "fetched", "kind again", "publish"}
Fails ==
  /\ probe.at \notin {"open", "identity", "fetch", "done"} /\ Reads
  /\ Refused(IF probe.at \in Fetching THEN "fetch_failed" ELSE "missing")

Probe ==
  \/ OpenCheckout \/ ProveIdentity \/ AskPromisor \/ AskTransport \/ ReadHead
  \/ ReadFilters \/ ReadWorktree \/ ReadUpstream \/ AskUrl \/ AskTransportAgain
  \/ AskKind \/ ReadTracking \/ Fetch \/ AskPromisorAgain \/ AskKindAgain \/ PublishFetched \/ Fails

-----------------------------------------------------------------------------
(* classify_repository_update: an update is available when nothing is in its way. *)

Behind == probe.local < probe.revision
Available == probe.error = "" /\ ~probe.dirty /\ Behind

-----------------------------------------------------------------------------
(* Other programs in the checkout and at the upstream, while the probe reads *)

\* Where nobody asks any more for what they arrange, and Git still goes by it.
Unasked(setting) ==
  CASE setting = "symbolic" -> {"publish"}
    [] setting = "filter" -> {"status"}
    [] setting \in Transports -> {"kind", "settle", "fetch"}
    [] OTHER -> {}
Arranges(setting) ==
  since' = IF probe.at \in Unasked(setting) THEN since \cup {setting} ELSE since

Configure ==
  /\ \/ probe.way = "check" /\ \E s \in Programs \ settings :
          settings' = settings \cup {s} /\ Arranges(s) /\ UNCHANGED <<symbolic, upstream>>
     \/ ~symbolic /\ symbolic' = TRUE /\ Arranges("symbolic") /\ UNCHANGED <<settings, upstream>>
     \/ upstream' \in Upstreams \ {upstream} /\ UNCHANGED <<settings, symbolic, since>>
  /\ UNCHANGED remote
Advance == probe.way = "check" /\ remote' = remote + 1 /\ UNCHANGED <<settings, upstream, symbolic, since>>
=============================================================================
