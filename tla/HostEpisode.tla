------------------------------ MODULE HostEpisode ------------------------------
(***************************************************************************)
(* scripts/host_harness.py: one fixture as one episode in a real host.     *)
(* The workspace is provisioned by the shipped installer; the prompt is    *)
(* sent, and the terminal message of the turn is classified.  A turn that  *)
(* ended cleanly without an AuthoringResult is answered once, as the       *)
(* reviewing user would; what the second turn ends with is the episode's.  *)
(*                                                                         *)
(* The host is not ours: a turn may end in any way, raise, or last for     *)
(* ever (no bound of the driver's is on it).                               *)
(***************************************************************************)
EXTENDS Episodes, Sequences

VARIABLES
  host,     \* where the driver is: "off", "setup", "turn", "adapt" or "over"
  endings,  \* how each turn of the episode has ended
  faulted,  \* has the workspace, the installer or the host raised?
  episode   \* the EpisodeResult, Unfinished until there is one

hostVars == <<host, endings, faulted, episode>>

\* The terminal message of a turn: its subtype ("missing" where there is no message), what
\* it hands in, and whether the stream shows a credential fault or that no token was spent
\* (_infra_hint).  The hint is looked for in every turn, whatever its end.
Payload  == Payloads \cup {"none"}
Terminal == {t \in [subtype: {"success", "max_turns", "error", "missing"}, payload: Payload, hint: BOOLEAN] :
               t.subtype = "missing" => t.payload = "none"}

\* Mutation: the hint of a fault counts for more than an answer.
Classify_HintFirst(t) ==
  CASE t.subtype = "max_turns" -> "budget"
    [] t.subtype \in {"error", "missing"} -> "infra"
    [] OTHER -> IF t.hint THEN "infra"
                ELSE IF t.payload # "none" THEN "result" ELSE "no_result"
Classify(t) ==
  CASE t.subtype = "max_turns" -> "budget"
    [] t.subtype \in {"error", "missing"} -> "infra"
    [] OTHER -> IF t.payload # "none" THEN "result"
                ELSE IF t.hint THEN "infra" ELSE "no_result"

NeedsReviewFollowup(t) == \/ Classify(t) = "no_result"
                          \/ Classify(t) = "result" /\ ~Envelope(t.payload)

ToEpisodeResult(t) == CASE Classify(t) = "result"    -> Submitted(t.payload)
                        [] Classify(t) = "no_result" -> Ended("no_submit")
                        [] Classify(t) = "budget"    -> Ended("budget_exceeded")
                        [] Classify(t) = "infra"     -> Ended("infra_error")

-----------------------------------------------------------------------------
StartHost ==
  /\ host = "off"
  /\ host' = "setup"
  /\ UNCHANGED <<endings, faulted, episode>>

\* The workspace is removed, the result handed over.
StopHost == host' = "off" /\ endings' = <<>> /\ faulted' = FALSE /\ episode' = Unfinished

Fault ==
  /\ host' = "over" /\ faulted' = TRUE
  /\ episode' = Ended("infra_error")
  /\ UNCHANGED endings

\* SKILL.md read, samples.json written, the installer run: it may be missing, fail, or
\* take more than its 120 seconds.
SetUp ==
  /\ host = "setup"
  /\ \/ Fault
     \/ host' = "turn" /\ UNCHANGED <<endings, faulted, episode>>

Turn ==
  /\ host = "turn"
  /\ \/ Fault
     \/ \E t \in Terminal :
          /\ endings' = Append(endings, t)
          /\ host' = IF endings = <<>> /\ NeedsReviewFollowup(t) THEN "turn" ELSE "adapt"
          /\ UNCHANGED <<faulted, episode>>

\* The session is closed, which may raise, and the terminal message adapted.
Adapt ==
  /\ host = "adapt"
  /\ \/ Fault
     \/ /\ episode' = ToEpisodeResult(endings[Len(endings)])
        /\ host' = "over"
        /\ UNCHANGED <<endings, faulted>>

HostInit == host = "off" /\ endings = <<>> /\ faulted = FALSE /\ episode = Unfinished
HostSteps == SetUp \/ Turn \/ Adapt

-----------------------------------------------------------------------------
HostTypeOK ==
  /\ host \in {"off", "setup", "turn", "adapt", "over"}
  /\ endings \in Seq(Terminal) /\ Len(endings) <= 2
  /\ faulted \in BOOLEAN
  /\ episode \in Results \cup {Unfinished}

\* A turn that the host failed in: it says so, or it calls a turn a success that handed in
\* nothing and in which the stream hints at a fault.
Faulty(t) == \/ t.subtype \in {"error", "missing"}
             \/ t.subtype = "success" /\ t.payload = "none" /\ t.hint

\* Who is to blame for an episode.  An AuthoringResult that the model returns with either
\* turn's success is what is scored unless the driver has raised, though the review
\* approval may follow and the stream may hint at a fault.  no_submit and budget_exceeded
\* count against the model: they are given only when no turn is Faulty and the driver has
\* not raised, budget_exceeded only when the last turn used up its turns.  infra_error,
\* which does not count at all, is given only when something was Faulty or raised.  A turn
\* that used up its turns counts against the model even where its stream hints at a fault:
\* the code classifies it before it looks at the hint.
BlameIsRight ==
  host = "over" =>
    /\ \A i \in DOMAIN endings :
         /\ endings[i].subtype = "success"
         /\ endings[i].payload # "none" /\ Envelope(endings[i].payload)
         => faulted \/ episode = Submitted(endings[i].payload)
    /\ episode.outcome \in {"no_submit", "budget_exceeded"} =>
         ~faulted /\ \A i \in DOMAIN endings : ~Faulty(endings[i])
    /\ episode.outcome = "budget_exceeded" => endings[Len(endings)].subtype = "max_turns"
    /\ episode.outcome = "infra_error" =>
         faulted \/ \E i \in DOMAIN endings : Faulty(endings[i])
=============================================================================
