------------------------------- MODULE Policy -------------------------------
(***************************************************************************)
(* What an agent of the backtest can do and what the stub model does: the  *)
(* tools of the sandbox, and the stub's choice of one call from the words  *)
(* of the task and the words of the mounted memory.                        *)
(*                                                                         *)
(* A text is the set of the phrases that code looks for and that occur in  *)
(* it, in lower case; a payload maps its fields to texts.  The order of    *)
(* the stub's matchers matters, for a prompt may fit several.              *)
(***************************************************************************)
EXTENDS Integers, Sequences, FiniteSets, SequencesExt

\* A tool call, and the write it leaves behind.
Call(app, action, args) == [app |-> app, action |-> action, args |-> args]

Arg(call, field) == IF field \in DOMAIN call.args THEN call.args[field] ELSE {}

-----------------------------------------------------------------------------
\* _guess_event, _guess_user.
GuessEvent(prompt) == IF "bob" \in prompt THEN {"ev_1on1_bob"} ELSE {"ev_unknown"}

GuessUser(prompt) ==
  CASE "alice" \in prompt -> {"U_ALICE"}
    [] "alice" \notin prompt /\ "bob" \in prompt -> {"U_BOB"}
    [] {"alice", "bob"} \cap prompt = {} /\ "carol" \in prompt -> {"U_CAROL"}
    [] OTHER -> {"U_UNKNOWN"}

\* _doc_name, _document_body, _announcement_text.
DocName(prompt, name, mem) ==
  IF {"customer", "named"} \subseteq mem THEN {"customer"} \cup name
  ELSE IF {"weekly", "summary"} \cap prompt # {} THEN {"weekly summary"} \cup name
  ELSE name

DocumentBody(mem) ==
  IF {"metric", "first"} \subseteq mem THEN {"metrics", "highlights", "risks"}
  ELSE IF {"section order", "template"} \cap mem # {}
       THEN {"attendees", "agenda", "decisions", "action items"} ELSE {"notes"}

AnnouncementText(name, mem) ==
  (IF {"is live", "launch"} \subseteq mem THEN {"launch", "is live"} ELSE {"announcing"})
  \cup name

PreferredTime(mem) ==
  CASE "afternoon" \in mem -> {"15:00"}
    [] "afternoon" \notin mem /\ "morning" \in mem -> {"09:00"}
    [] OTHER -> {"12:00"}

\* The matchers of _decide, in order; all the tools are there.
Matchers(prompt, name, mem) ==
  LET asks(words)  == words \cap prompt # {}
      knows(words) == words \cap mem # {}
      Pick(words, text, other) == IF knows(words) THEN {text} ELSE {other}
      Rule(fits, call) == [fits |-> fits, call |-> call]
  IN <<
    Rule(asks({"decline", "optional"}),
         Call("gcal", "respond_event",
              [event_id |-> GuessEvent(prompt),
               response |-> IF {"optional attendees", "decline"} \subseteq mem
                            THEN {"declined"} ELSE {"accepted"}])),
    Rule(asks({"schedule", "external call"}) /\ ~ asks({"reschedule"}),
         Call("gcal", "create_event",
              [summary |-> {"call"} \cup name,
               start |-> Pick({"before 10am", "10am pacific"}, "10:00", "08:00")])),
    Rule(asks({"travel", "itinerary", "flight"}),
         Call("gcal", "create_event",
              [summary |-> {"travel"} \cup Pick({"united"}, "airline united", "airline any")
                           \cup Pick({"aisle"}, "seat aisle", "seat any")])),
    Rule(asks({"reschedule", "1:1"}),
         Call("gcal", "update_event",
              [event_id |-> GuessEvent(prompt), start |-> PreferredTime(mem)])),
    Rule(/\ asks({"dm", "vip", "reply", "follow up with"})
         /\ knows({"prefers direct messages", "personal reply", "high priority"}),
         Call("slack", "send_dm", [user |-> GuessUser(prompt), text |-> {"personally"}])),
    Rule(asks({"route"}),
         Call("slack", "post_message",
              [channel |-> Pick({"bugs go to", "engineering"}, "engineering", "general"),
               text |-> {"routing"}])),
    Rule(asks({"announce", "post"}),
         Call("slack", "post_message",
              [channel |-> Pick({"announcements"}, "announcements", "general"),
               text |-> AnnouncementText(name, mem)])),
    Rule(asks({"approver", "invite", "review"}),
         Call("gcal", "create_event",
              [summary |-> {"approval"},
               attendees |-> Pick({"vp of product", "approver"}, "vp-product", "team")])),
    Rule(asks({"summary", "notes", "weekly"}),
         Call("gdocs", "create_document",
              [name |-> DocName(prompt, name, mem), body |-> DocumentBody(mem)])),
    Rule(asks({"update"}) /\ asks({"page", "project"}),
         Call("gdocs", "update_document",
              [document_id |-> Pick({"canonical", "overview"},
                                    "doc_redwood_overview", "doc_unknown"),
               body |-> {"updated"}])),
    Rule(asks({"create"}) /\ asks({"doc"}),
         Call("gdocs", "create_document", [name |-> DocName(prompt, name, mem)])),
    Rule(asks({"decision", "prior", "scope"}),
         Call("slack", "post_message",
              [channel |-> {"general"},
               text |-> Pick({"frozen", "do not reopen"}, "frozen", "not found")])),
    Rule(TRUE, Call("slack", "list_channels", [none |-> {}])) >>

Decide(prompt, name, mem) ==
  SelectSeq(Matchers(prompt, name, mem), LAMBDA rule : rule.fits)[1].call

-----------------------------------------------------------------------------
\* The sandbox's view of the seeded channels: state maps a channel's id to its name
\* and whether it is deleted.
ResolveChannel(state, named) ==
  LET hits == {c \in DOMAIN state : ~ state[c].deleted /\ named \in {{state[c].name}, {c}}}
  IN  IF hits = {} THEN named ELSE {CHOOSE c \in hits : TRUE}

\* SandboxToolRouter.execute: the writes one call leaves, none for a read or for a
\* tool that does not exist.
Writes(state, call) ==
  LET Wrote(payload) == <<[app |-> call.app, action |-> call.action, payload |-> payload]>>
      Is(app, actions) == call.app = app /\ call.action \in actions
  IN  CASE Is("slack", {"post_message"}) ->
             Wrote([channel |-> Arg(call, "channel"),
                    channel_id |-> ResolveChannel(state, Arg(call, "channel")),
                    text |-> Arg(call, "text")])
        [] Is("slack", {"send_dm"}) ->
             Wrote([user |-> Arg(call, "user"), text |-> Arg(call, "text")])
        [] Is("gcal", {"update_event", "create_event", "respond_event"}) \/
           Is("gdocs", {"update_document"}) -> Wrote(call.args)
        [] Is("gdocs", {"create_document"}) ->
             Wrote(IF "body" \in DOMAIN call.args
                   THEN [name |-> Arg(call, "name"), body |-> Arg(call, "body")]
                   ELSE [name |-> Arg(call, "name")])
        [] OTHER -> <<>>

=============================================================================
