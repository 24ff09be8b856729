--------------------------- MODULE CommandOutcomes ---------------------------
(***************************************************************************)
(* What running a command can amount to.  A command is the set of its      *)
(* runs; a run lists, in order, what others can see of it (a message put   *)
(* into the reply, an effect on a store or a group, a use of the WhatsApp  *)
(* port, media that came along) and how it ends.  What a command computes  *)
(* (captions, choices, numbers) is left out; which branch it takes is a    *)
(* choice.                                                                 *)
(*                                                                         *)
(* P & Q runs P and then, if P went on, Q; P | Q runs one of the two.      *)
(***************************************************************************)
EXTENDS Sequences

\* What a run may raise: an httpx error, an ExternalServiceError, among those a
\* DownloadError, any other BotError, anything else.
Errors == {"http", "service", "download", "told", "other"}
BotErrors == {"service", "download", "told"}

Media == {"image", "image_buffer", "video", "video_buffer", "audio"}
Kinds == Media \cup {"text", "raw", "audio_buffer", "sticker"}

\* Effects that come out the same when they are repeated, and those that do not.
Keyed == {"count", "add_phone", "ban_named", "birthday", "dev", "config",
          "mention_list", "drive_channel"}
Unkeyed == {"add_random", "ban_random", "drive_upload", "exit_by_index"}
Effects == Keyed \cup Unkeyed

Events == Kinds \cup Effects \cup {"port", "media"}

Ends(e) == {[events |-> <<>>, end |-> e]}
Event(v) == {[events |-> <<v>>, end |-> "on"]}

Skip == Ends("on")
Return == Ends("done")
Nothing == Ends("none")         \* a helper returned None
Raise(e) == Ends(e)

Before(p, q) == [events |-> p.events \o q.events, end |-> q.end]
Continued(P, E, Q) == {p \in P : p.end \notin E}
                        \cup {Before(p, q) : p \in {r \in P : r.end \in E}, q \in Q}

P & Q == Continued(P, {"on"}, Q)
P | Q == P \cup Q

\* try: P, except E: H.
Catch(P, E, H) == Continued(P, E, H)
\* The result of P, or of Q when P found nothing.
OrElse(P, Q) == Continued(P, {"none"}, Q)

Optional(P) == Skip | P
Twice(P) == P | P & P           \* a loop over one or two items

Say(k) == Event(k)
Answer(k) == Say(k) & Return
MayAnswer(k) == Optional(Answer(k))

\* HTTP requests and the reading of their answers.
Fetch == Skip | Raise("http") | Raise("other")
Compute == Skip | Raise("other")    \* what reads or draws what was fetched

\* An effect and the failures around it: refused, or done with the answer lost.
Effect(v, error) == Event(v) | Raise(error) | Event(v) & Raise(error)
Write(v) == Effect(v, "other")  \* MongoDB, Postgres
Read == Skip | Raise("other")

\* The WhatsApp port: a read over wa_rpc, an action published to wa_actions.
Rpc == Event("port") & Read
Act(v) == Event("port") & Write(v)

\* Command._get_media: the buffer that came along; else RuntimeError, or the
\* port, whose download_media only raises MediaUnavailableError.
GetMedia == Raise("other") | Event("media") & (Skip | Event("port") & Raise("told"))

\* A command: its CommandConfig as a set of marks, and its runs.
Cmd(marks, runs) == [marks |-> marks, runs |-> runs]
==============================================================================
