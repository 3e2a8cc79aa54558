-------------------------- MODULE MCWorkspaceSync --------------------------
(***************************************************************************)
(* A workspace whose user is renamed while its first channel, with a       *)
(* message, is made; a document without revisions, so without a time; and  *)
(* a mailbox that never answers, as live Gmail does not.  The worker goes  *)
(* round them and "omb sync run gdocs" runs beside it.  The calendar is    *)
(* left out of the worker's list.                                          *)
(*                                                                         *)
(* In the second run every source has something of each kind, and the user *)
(* takes another name and then the first again.                            *)
(***************************************************************************)
EXTENDS WorkspaceSync

CONSTANTS worker, command

AppList == <<"slack", "gdocs", "gmail">>

MCApps == {AppList[i] : i \in 1 .. Len(AppList)}
MCPlan == [w \in Writers |-> IF w = worker THEN AppList ELSE <<"gdocs">>]

Channel(members, reactions) ==
  [id |-> "c1", created |-> 1, topic |-> "launch", members |-> members,
   messages |-> <<[ts |-> 2, text |-> "hi", reactions |-> reactions]>>]

Workspace(profile, channels, edits) ==
  [users |-> <<[id |-> "u1", profile |-> profile]>>, channels |-> channels, edits |-> edits]

File(revisions) == [id |-> "d1", name |-> "plan", revisions |-> revisions]

MCDocuments ==
  [a \in MCApps |->
     CASE a = "slack" -> <<Workspace("Ann", <<>>, <<>>),
                           Workspace("Anna", <<Channel(<<>>, <<>>)>>, <<>>)>>
       [] a = "gdocs" -> << <<File(<<>>)>> >>
       [] a = "gmail" -> <<>>]

Edit  == [channel |-> "c1", ts |-> 2, editedTs |-> 3, text |-> "hello"]
Again(profile) == Workspace(profile, <<Channel(<<"u1">>, <<"eyes">>)>>, <<Edit>>)

RenamedTwice ==
  [a \in MCApps |->
     CASE a = "slack" -> <<Again("Ann"), Again("Anna"), Again("Ann")>>
       [] a = "gdocs" -> << <<File(<<[modified |-> 1, content |-> "draft"],
                                     [modified |-> NoBlob, content |-> "text"]>>)>> >>
       [] a = "gmail" -> << <<[id |-> "m1", date |-> 1, labels |-> <<"inbox">>]>> >>]

MCEvents == UNION {EventsOf(a) : a \in MCApps}
MCBulk == {}

=============================================================================
