----------------------------- MODULE MqttTopics -----------------------------
(***************************************************************************)
(* The topics on which printers report, the handlers PrinterService        *)
(* registers for them, and matchTopic, the library function that picks the *)
(* handler of a message.  A topic is the sequence of its segments.         *)
(***************************************************************************)
EXTENDS Naturals, Sequences

\* Handlers are named after what they handle, in the order of topicHandlers.
Kinds == {"init", "status", "data", "lock", "register", "oid"}

topicHandlers == <<"init", "status", "data", "lock", "register", "oid">>

Pattern(kind) ==
    IF kind = "oid" THEN <<"printer", "oid", "+">> ELSE <<"printer", "+", kind>>

\* Where printer mac publishes a report: the pattern with + filled in.
Topic(kind, mac) ==
    [i \in 1..3 |-> IF Pattern(kind)[i] = "+" THEN mac ELSE Pattern(kind)[i]]

\* Mutant: the first + accepts the rest of the topic.
matchTopicLoose(filter, topic) ==
    LET from[i \in 1..(Len(filter) + 1)] ==
          IF i > Len(filter) THEN Len(filter) = Len(topic)
          ELSE IF filter[i] \in {"#", "+"} THEN Len(topic) >= Len(filter) - 1
          ELSE i <= Len(topic) /\ filter[i] = topic[i] /\ from[i + 1]
    IN  from[1]

(***************************************************************************)
(* matchTopic: segments are compared from the left; # accepts the rest,    *)
(* even nothing; + accepts a segment, and also the undefined one past the  *)
(* end of the topic, which the comparison of lengths then refuses.         *)
(* Shared subscriptions are an option no caller uses.                      *)
(***************************************************************************)
matchTopic(filter, topic) ==
    LET from[i \in 1..(Len(filter) + 1)] ==
          IF i > Len(filter) THEN Len(filter) = Len(topic)
          ELSE IF filter[i] = "#" THEN Len(topic) >= Len(filter) - 1
          ELSE /\ filter[i] = "+" \/ (i <= Len(topic) /\ filter[i] = topic[i])
               /\ from[i + 1]
    IN  from[1]

\* topicHandlers.find(...): the first handler whose pattern matches, if any.
HandlersOf(topic) ==
    LET hits == {i \in 1..Len(topicHandlers) :
                    matchTopic(Pattern(topicHandlers[i]), topic)}
    IN  {topicHandlers[i] : i \in {j \in hits : \A k \in hits : j <= k}}

\* Segments are counted from 0; one that is missing gives the empty string.
TopicToMac(topic, index) == IF index < Len(topic) THEN topic[index + 1] ELSE ""

\* The printer a handler takes the topic to name.
MacOf(kind, topic) == TopicToMac(topic, IF kind = "oid" THEN 2 ELSE 1)

\* The broker's own rule (MQTT 4.7), for filters whose # comes last.
Covers(filter, topic) ==
    LET n == Len(filter)
        Fits(k) == \A i \in 1..k : filter[i] = "+" \/ filter[i] = topic[i]
    IN  IF n > 0 /\ filter[n] = "#"
        THEN Len(topic) >= n - 1 /\ Fits(n - 1)
        ELSE Len(topic) = n /\ Fits(n)

=============================================================================
