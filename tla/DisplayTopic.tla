----------------------------- MODULE DisplayTopic -----------------------------
(***************************************************************************)
(* The side of rviz_common::MessageFilterDisplay the octomap displays rest *)
(* on (it is not in the repository): a topic, the subscription, and the    *)
(* messages that were taken and wait for processMessage, which runs in the *)
(* thread of the user interface.  The servers latch their topics: a        *)
(* subscription that asks for it gets the last message again.              *)
(***************************************************************************)
EXTENDS Octree, Sequences

CONSTANTS
  Messages,     \* what the server may publish: the type id and the tree
  MaxMessages,  \* bound: how often it publishes
  MaxCommands,  \* bound: how often the user acts
  MaxTaken      \* bound: messages that wait for processMessage

ASSUME MessagesAssumption ==
  \A m \in Messages : m.tree \in [DOMAIN m.tree -> LogOdds] /\ DOMAIN m.tree \subseteq Key

VARIABLES
  published,    \* the last message on the topic
  enabled,      \* whether the display is enabled
  durable,      \* whether its subscription gets the latched message
  taken,        \* the messages that wait for processMessage
  messages,     \* how often the server published
  commands      \* how often the user acted

topic_vars == <<published, enabled, durable, taken, messages, commands>>

NoMessage == [id |-> "none", tree |-> NoTree]

TopicInit ==
  /\ published = NoMessage
  /\ enabled = TRUE
  /\ durable \in BOOLEAN
  /\ taken = <<>>
  /\ messages = 0
  /\ commands = 0

Publish(m) ==
  /\ messages < MaxMessages
  /\ enabled => Len(taken) < MaxTaken
  /\ messages' = messages + 1
  /\ published' = m
  /\ taken' = IF enabled THEN Append(taken, m) ELSE taken
  /\ UNCHANGED <<enabled, durable, commands>>

(* A new subscription, when the display is or becomes enabled.  What was   *)
(* taken from the old one is still processed.                              *)
Resubscribe(on) ==
  /\ commands < MaxCommands
  /\ commands' = commands + 1
  /\ enabled' = on
  /\ IF on /\ durable /\ published # NoMessage
       THEN Len(taken) < MaxTaken /\ taken' = Append(taken, published)
       ELSE taken' = taken
  /\ UNCHANGED <<published, durable, messages>>

(* A command of the user that leaves the subscription alone.               *)
Command ==
  /\ commands < MaxCommands
  /\ commands' = commands + 1
  /\ UNCHANGED <<published, enabled, durable, taken, messages>>

Take ==
  /\ taken # <<>>
  /\ taken' = Tail(taken)
  /\ UNCHANGED <<published, enabled, durable, messages, commands>>
==============================================================================
