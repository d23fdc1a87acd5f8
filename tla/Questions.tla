------------------------------ MODULE Questions ------------------------------
(***************************************************************************)
(* The program's pure decisions, each asked a question and answering it:   *)
(* which cameras a rendered event shows (module Follow), who is calling    *)
(* the house pages (module Gate) and what a configuration file comes to    *)
(* (module Settings).  The answers are compared with a definition of what  *)
(* they should be.                                                         *)
(***************************************************************************)
EXTENDS Integers, Sequences, Follow, Gate, Settings

CONSTANTS
  Evidence,  \* the samples an event may have, as they arrived
  Clip,      \* the length of its clip, in looks
  Peers,     \* the addresses a request may come from
  Chains,    \* what it may say it was forwarded for
  Nets,      \* the networks allow_cidrs and trusted_proxies may name
  Files      \* configuration files, as parsed (File)

ASSUME QuestionsAssumption ==
  /\ Evidence \subseteq Seq(Sample)
  /\ Clip \in Nat
  /\ Chains \subseteq Seq(Peers)
  /\ Nets \subseteq SUBSET (Peers \ {NoAddress})
  /\ Files \subseteq File

VARIABLES
  question,  \* [about, ...]
  answer     \* <<>> until there is one

questionVars == <<question, answer>>

Nothing == [about |-> "nothing"]

AskNothing == question = Nothing /\ answer = <<>>

Ask ==
  /\ answer = <<>>
  /\ \/ question \in [about : {"edit"}, boxes : Evidence]
     \/ question \in [about : {"caller"}, peer : Peers, chain : Chains, proxies : Nets]
     \/ question \in [about : {"file"}, file : Files]

Unanswered(about) == question.about = about /\ answer = <<>>

AnswerEdit ==
  /\ Unanswered("edit")
  /\ \E segs \in Build(question.boxes, Clip) : answer' = <<segs>>
  /\ UNCHANGED question

AnswerCaller ==
  /\ Unanswered("caller")
  /\ answer' = <<Caller(question.peer, question.chain, question.proxies)>>
  /\ UNCHANGED question

AnswerFile ==
  /\ Unanswered("file")
  /\ answer' = <<Filled(question.file)>>
  /\ UNCHANGED question

Answer == AnswerEdit \/ AnswerCaller \/ AnswerFile

QuestionsSpec == (AskNothing \/ Ask) /\ [][Answer]_questionVars

Answered(about) == question.about = about /\ answer # <<>>

------------------------------------------------------------------------------
(***************************************************************************)
(* Properties.                                                             *)
(***************************************************************************)
\* edl.go Build, emit: what ffmpeg is made to render covers the clip without a
\* gap or an overlap, in shots that are never too short.
EditTiles == Answered("edit") => Tiles(question.boxes, Clip, answer[1])

\* edl.go Build: the hysteresis holds a shot for its minimum and no longer than
\* the evidence supports it.
EditFollows == Answered("edit") => Follows(question.boxes, Clip, answer[1])

\* house.go Caller, Allowed, ServeHTTP: the caller is the rightmost address that
\* is no proxy of ours; nothing a client writes ahead of what the proxies append
\* changes it; and only a caller in an allowed network reaches any page.
CallerIsLastStranger ==
  Answered("caller") =>
    LET q == question
    IN /\ answer[1] = LastStranger(q.peer, q.chain, q.proxies)
       /\ (\E i \in DOMAIN q.chain : q.chain[i] \notin q.proxies) =>
            \A forged \in Chains : Caller(q.peer, forged \o q.chain, q.proxies) = answer[1]
       /\ \A allow \in Nets, area \in {"admin", "event", "stitch", "list"}, method \in {"GET", "POST"} :
            Route(Allowed(q.peer, q.chain, allow, q.proxies), area, method) # "not found"
              <=> answer[1] \in allow

\* config.go applyDefaults: what it fills in meets its own rules, so that filling
\* neither saves nor spoils a file and doing it again changes nothing; and what
\* it accepts is what the rest of the program can run with.
FilledIsAccepted ==
  Answered("file") =>
    /\ SettingsAccepted(answer[1]) <=> SettingsAccepted(question.file)
    /\ Filled(answer[1]) = answer[1]
    /\ SettingsAccepted(question.file) => Usable(answer[1])
==============================================================================
