----------------------------- MODULE MetaPublish -----------------------------
(***************************************************************************)
(* Element gvametapublish (gst/elements/gvametapublish): the messages that *)
(* come with the buffers are published to a file, to an MQTT broker or to  *)
(* a Kafka broker.  The application sets the properties and starts and     *)
(* stops the element, possibly several times; buffers come on the          *)
(* streaming thread, the answers of the MQTT client on a thread of the     *)
(* client's.                                                               *)
(*                                                                         *)
(* The application sets properties of a stopped element only; the code does *)
(* not insist, and with max-connect-attempts lowered below the attempt the *)
(* clients are at, their tests for equality would never be met.            *)
(*                                                                         *)
(* Left out: what a callback of the MQTT client does when it is still      *)
(* asleep while the client is destroyed, and a client of Kafka whose start *)
(* failed halfway (both undefined in the code).                            *)
(***************************************************************************)
EXTENDS Integers, Sequences

CONSTANTS
    Message,        \* JSON messages
    MessageSize,    \* their length in bytes: "{}" at least
    MaxMessages,    \* bound: messages between a start and a stop
    MaxStarts,      \* bound: how often the element is started
    MaxAttempts,    \* bound: max-connect-attempts
    MaxInterval,    \* bound: max-reconnect-interval, in seconds
    NULL

ASSUME BoundAssumption == /\ MessageSize \in Nat /\ MessageSize >= 2
                          /\ MaxMessages \in Nat /\ MaxStarts \in Nat
                          /\ MaxAttempts \in Nat \ {0} /\ MaxInterval \in Nat \ {0}
ASSUME TokenAssumption == \A t \in {NULL, "[", "comma", "]", "newline"} : t \notin Message

VARIABLES
    settings,           \* the properties of the element
    starts,             \* how often it was started
    active,             \* start succeeded, and no stop since
    method_class,       \* the method object, or NULL
    content,            \* what the file and the standard output hold
    position,           \* ftello of either; -1 where it cannot be told
    accepted,           \* the messages transform_ip returned GST_FLOW_OK for
    link,               \* connection of the MQTT client
    connection_attempt, \* of the MQTT or the Kafka client
    sleep_time,         \* of the MQTT client
    fatal,              \* the error "after maximum configured attempts" was posted
    failures,           \* history: attempts to connect that failed since the start
    losses,             \* history: connections that were lost since the start
    failed              \* a call of the element failed: the stream is over

fileVars == <<content, position>>
history == <<failures, losses>>
connVars == <<link, connection_attempt, sleep_time, history>>
vars == <<settings, starts, active, method_class, content, position, accepted, link,
          connection_attempt, sleep_time, history, fatal, failed>>

Target == {"stdout", "file"}
Token  == Message \cup {"[", "comma", "]", "newline"}

\* The properties, those of the other methods at their defaults.
Settings ==
    {s \in [method : {"file", "mqtt", "kafka"}, file_path : Target,
            file_format : {"json", "json-lines"},
            max_connect_attempts : 1..MaxAttempts,
            max_reconnect_interval : 1..MaxInterval] :
        /\ s.method = "file" => s.max_connect_attempts = 1
        /\ s.method # "mqtt" => s.max_reconnect_interval = MaxInterval
        /\ s.method # "file" => s.file_path = "stdout" /\ s.file_format = "json"}

\* gst_gva_meta_publish_reset.
Defaults == [method |-> "file", file_path |-> "stdout", file_format |-> "json",
             max_connect_attempts |-> 1, max_reconnect_interval |-> MaxInterval]

\* The types of the variables.
TypeOK ==
    /\ settings \in Settings
    /\ starts \in 0..MaxStarts
    /\ active \in BOOLEAN
    /\ method_class \in {"file", "mqtt", "kafka", NULL}
    /\ content \in [Target -> Seq(Token)]
    /\ position \in [Target -> Nat \cup {-1}]
    /\ accepted \in Seq(Message)
    /\ link \in {"none", "connecting", "connected", "retry", "down"}
    /\ connection_attempt \in 1..MaxAttempts
    /\ sleep_time \in 1..MaxInterval
    /\ failures \in 0..MaxAttempts
    /\ losses \in 0..MaxAttempts
    /\ fatal \in BOOLEAN
    /\ failed \in BOOLEAN

\* The standard output is a terminal, or a file of its own.
Init ==
    /\ settings \in Settings
    /\ starts = 0
    /\ active = FALSE
    /\ method_class = NULL
    /\ content = [t \in Target |-> <<>>]
    /\ \E console \in {-1, 0} : position = [t \in Target |-> IF t = "stdout" THEN console ELSE 0]
    /\ accepted = <<>>
    /\ link = "none"
    /\ connection_attempt = 1
    /\ sleep_time = 1
    /\ failures = 0
    /\ losses = 0
    /\ fatal = FALSE
    /\ failed = FALSE

-----------------------------------------------------------------------------
(* Writing to a file *)

\* JSON_RECORD_PREFIX is a comma and a line feed.
Size(t) == IF t \in Message THEN MessageSize ELSE IF t = "comma" THEN 2 ELSE 1

\* fputs, one token or two; a terminal has no position.
Moved(p, n) == IF p < 0 THEN p ELSE p + n
Put(t, token) ==
    /\ content' = [content EXCEPT ![t] = Append(@, token)]
    /\ position' = [position EXCEPT ![t] = Moved(@, Size(token))]
PutTwo(t, first, second) ==
    /\ content' = [content EXCEPT ![t] = @ \o <<first, second>>]
    /\ position' = [position EXCEPT ![t] = Moved(@, Size(first) + Size(second))]

\* initialize_file: a JSON file is truncated and begins an array, JSON lines are
\* appended to what is there, nothing is written to the standard output.
InitializeFile ==
    CASE settings.file_path = "stdout" -> UNCHANGED fileVars
      [] settings.file_path = "file" /\ settings.file_format = "json" ->
            /\ content' = [content EXCEPT !["file"] = <<"[">>]
            /\ position' = [position EXCEPT !["file"] = Size("[")]
      [] OTHER -> /\ position' = [position EXCEPT !["file"] = 0]
                  /\ UNCHANGED content

\* Mutant: any position but the first is taken for that of a later record.
NeedsPrefixEarly == settings.file_format = "json" /\ position[settings.file_path] > 0

\* write_message_prefix: a prior record was written.
NeedsPrefix == settings.file_format = "json" /\ position[settings.file_path] > 2

\* write_message.
WriteMessage(m) ==
    LET t == settings.file_path
    IN CASE NeedsPrefix -> PutTwo(t, "comma", m)
         [] settings.file_format = "json-lines" -> PutTwo(t, m, "newline")
         [] OTHER -> Put(t, m)

\* finalize_file; fclose succeeds.
FinalizeFile ==
    LET t == settings.file_path
    IN IF settings.file_format = "json" /\ position[t] > 0
         THEN PutTwo(t, "]", "newline")
         ELSE Put(t, "newline")

-----------------------------------------------------------------------------
(* Start *)

\* The application sets properties of a stopped element.
SetProperty ==
    /\ ~active
    /\ starts < MaxStarts
    /\ settings' \in Settings \ {settings}
    /\ UNCHANGED <<starts, active, method_class, fileVars, accepted, connVars, fatal, failed>>

\* gst_gva_meta_publish_start creates the object of the method, in place of one
\* whose start failed.  When it fails the element is not active and stop is
\* not called.
Starting(ok) ==
    /\ ~active
    /\ starts < MaxStarts
    /\ starts' = starts + 1
    /\ method_class' = settings.method
    /\ active' = ok
    /\ failed' = ~ok
    /\ fatal' = FALSE
    /\ accepted' = <<>>
    /\ connection_attempt' = 1
    /\ sleep_time' = 1
    /\ failures' = 0
    /\ losses' = 0
    /\ UNCHANGED settings

StartFile ==
    /\ settings.method = "file"
    /\ \/ Starting(TRUE) /\ InitializeFile
       \/ settings.file_path = "file" /\ Starting(FALSE) /\ UNCHANGED fileVars
    /\ UNCHANGED link

\* MQTTAsync_connect only begins the connection, or refuses to.
StartMqtt ==
    /\ settings.method = "mqtt"
    /\ \/ Starting(TRUE) /\ link' = "connecting"
       \/ Starting(FALSE) /\ link' = "none"
    /\ UNCHANGED fileVars

StartKafka ==
    /\ settings.method = "kafka"
    /\ \E ok \in BOOLEAN : Starting(ok)
    /\ UNCHANGED <<fileVars, link>>

-----------------------------------------------------------------------------
(* Callbacks of the MQTT client *)

\* Mutant: a failed attempt is not counted.
RetryUncounted ==
    /\ link' = "retry"
    /\ sleep_time' = IF 2 * sleep_time > settings.max_reconnect_interval
                       THEN settings.max_reconnect_interval ELSE 2 * sleep_time
    /\ UNCHANGED <<connection_attempt, fatal>>

\* Mutant: one attempt more than the maximum.
RetryOnceMore ==
    IF connection_attempt > settings.max_connect_attempts
      THEN /\ fatal' = TRUE
           /\ link' = "down"
           /\ UNCHANGED <<connection_attempt, sleep_time>>
      ELSE /\ link' = "retry"
           /\ connection_attempt' = connection_attempt + 1
           /\ sleep_time' = IF 2 * sleep_time > settings.max_reconnect_interval
                              THEN settings.max_reconnect_interval ELSE 2 * sleep_time
           /\ UNCHANGED fatal

\* Mutant: the interval is bounded before it is doubled.
RetryUnbounded ==
    IF connection_attempt = settings.max_connect_attempts
      THEN /\ fatal' = TRUE
           /\ link' = "down"
           /\ UNCHANGED <<connection_attempt, sleep_time>>
      ELSE /\ link' = "retry"
           /\ connection_attempt' = connection_attempt + 1
           /\ sleep_time' = 2 * (IF sleep_time > settings.max_reconnect_interval
                                   THEN settings.max_reconnect_interval ELSE sleep_time)
           /\ UNCHANGED fatal

\* connection_lost and on_connect_failure begin in the same way: give up when
\* the attempts are used up, otherwise sleep before the next one, for an interval
\* that is doubled first.
Retry ==
    IF connection_attempt = settings.max_connect_attempts
      THEN /\ fatal' = TRUE
           /\ link' = "down"
           /\ UNCHANGED <<connection_attempt, sleep_time>>
      ELSE /\ link' = "retry"
           /\ connection_attempt' = connection_attempt + 1
           /\ sleep_time' = IF 2 * sleep_time > settings.max_reconnect_interval
                              THEN settings.max_reconnect_interval ELSE 2 * sleep_time
           /\ UNCHANGED fatal

\* Bound: what the histories count to.
Counted(n) == IF n > MaxAttempts THEN MaxAttempts ELSE n

OnConnectSuccess ==
    /\ link = "connecting"
    /\ link' = "connected"
    /\ UNCHANGED <<settings, starts, active, method_class, fileVars, accepted,
                   connection_attempt, sleep_time, history, fatal, failed>>

OnConnectFailure ==
    /\ link = "connecting"
    /\ Retry
    /\ failures' = Counted(failures + 1)
    /\ UNCHANGED <<settings, starts, active, method_class, fileVars, accepted, losses, failed>>

ConnectionLost ==
    /\ link = "connected"
    /\ Retry
    /\ losses' = Counted(losses + 1)
    /\ UNCHANGED <<settings, starts, active, method_class, fileVars, accepted, failures, failed>>

\* The rest of either, after g_usleep.  A refused call is only logged: there is no
\* other attempt, and no error.
Reconnect ==
    /\ link = "retry"
    /\ link' \in {"connecting", "down"}
    /\ UNCHANGED <<settings, starts, active, method_class, fileVars, accepted,
                   connection_attempt, sleep_time, history, fatal, failed>>

-----------------------------------------------------------------------------
(* Buffers *)

\* error_cb of the Kafka client, n times, called from rd_kafka_poll.
ErrorCb(n) ==
    LET max == settings.max_connect_attempts
    IN /\ connection_attempt' = IF connection_attempt + n > max THEN max
                                ELSE connection_attempt + n
       /\ fatal' = (fatal \/ connection_attempt + n > max)
       /\ failures' = Counted(failures + n)
       /\ UNCHANGED losses

\* gst_gva_meta_publish_transform_ip, for a buffer with a message.
Streaming ==
    /\ active
    /\ ~failed
    /\ Len(accepted) < MaxMessages
    /\ UNCHANGED <<settings, starts, active, method_class>>

PublishFile(m) ==
    /\ method_class = "file"
    /\ Streaming
    /\ WriteMessage(m)
    /\ accepted' = Append(accepted, m)
    /\ UNCHANGED <<connVars, fatal, failed>>

\* A message the client does not take, for want of a connection, is lost: the
\* method logs it and returns TRUE.
PublishMqtt(m) ==
    /\ method_class = "mqtt"
    /\ Streaming
    /\ accepted' = Append(accepted, m)
    /\ UNCHANGED <<fileVars, connVars, fatal, failed>>

PublishKafka(m) ==
    /\ method_class = "kafka"
    /\ Streaming
    /\ \E n \in 0..MaxAttempts : ErrorCb(n)
    /\ \/ accepted' = Append(accepted, m) /\ UNCHANGED failed
       \/ failed' = TRUE /\ UNCHANGED accepted
    /\ UNCHANGED <<fileVars, link, sleep_time>>

-----------------------------------------------------------------------------
(* Stop *)

\* gst_gva_meta_publish_reset: all properties get their defaults.
Reset ==
    /\ active
    /\ active' = FALSE
    /\ method_class' = NULL
    /\ settings' = Defaults
    /\ UNCHANGED <<starts, accepted>>

StopFile ==
    /\ method_class = "file"
    /\ Reset
    /\ FinalizeFile
    /\ UNCHANGED <<connVars, fatal, failed>>

\* A client without a connection has nothing to disconnect.  When the request to
\* disconnect is refused stop fails and nothing is reset; it may be called again.
StopMqtt ==
    /\ method_class = "mqtt"
    /\ \/ /\ Reset
          /\ link' = "none"
          /\ UNCHANGED failed
       \/ /\ active /\ link = "connected" /\ ~failed
          /\ failed' = TRUE
          /\ UNCHANGED <<active, method_class, settings, starts, accepted, link>>
    /\ UNCHANGED <<fileVars, connection_attempt, sleep_time, history, fatal>>

\* Flush, and poll of the finalizer: both may call error_cb.
StopKafka ==
    /\ method_class = "kafka"
    /\ Reset
    /\ \E n \in 0..MaxAttempts : ErrorCb(n)
    /\ UNCHANGED <<fileVars, link, sleep_time, failed>>

Start == StartFile \/ StartMqtt \/ StartKafka
Stop  == StopFile \/ StopMqtt \/ StopKafka
Callback == OnConnectSuccess \/ OnConnectFailure \/ Reconnect

Next == \/ SetProperty \/ Start \/ Stop
        \/ Callback \/ ConnectionLost
        \/ \E m \in Message : PublishFile(m) \/ PublishMqtt(m) \/ PublishKafka(m)

Spec == Init /\ [][Next]_vars

\* The client answers a request to connect, with a failure after its timeout at
\* the latest, and a thread that sleeps wakes up.
FairSpec == Spec /\ WF_vars(Callback)

-----------------------------------------------------------------------------
(* Properties *)

\* "the whole file is valid JSON array where each element is inference results
\* per frame" (gstgvametapublish.c, file-format).
JsonArray(ms) ==
    <<"[">> \o [i \in 1..(IF ms = <<>> THEN 0 ELSE 2 * Len(ms) - 1) |->
                   IF i % 2 = 1 THEN ms[(i + 1) \div 2] ELSE "comma"] \o <<"]", "newline">>

\* When the element stops, a JSON file holds one array of all the messages it
\* accepted since its start, in their order, whatever was in the file before.
FileIsArray ==
    [][(/\ active /\ method_class = "file" /\ ~active'
        /\ settings.file_path = "file" /\ settings.file_format = "json")
       => content'["file"] = JsonArray(accepted)]_vars

\* Through any mix of failures, losses and successes: a client gives up when as many
\* attempts failed or connections were lost as max-connect-attempts, no sooner, and
\* does not go on after that; while the MQTT client sleeps after the n-th of them, it
\* does for 2^n seconds, or for max-reconnect-interval if that is less.  That is what
\* the code does, and is not what the documentation says (gstgvametapublish.c:200,
\* 207): losses count as well as "failed connection attempts", and the "initial
\* interval" of one second is doubled before anything sleeps.
RetriesBounded ==
    LET n == failures + losses
    IN active /\ method_class # "file" =>
          /\ fatal <=> n >= settings.max_connect_attempts
          /\ method_class = "mqtt" => n <= settings.max_connect_attempts
          /\ link = "retry" =>
                sleep_time = IF 2^n > settings.max_reconnect_interval
                               THEN settings.max_reconnect_interval ELSE 2^n

\* A client that is not connected does not try for ever: it gets a connection, or
\* it gives up, after its attempts or because a call is refused.
Reconnects == link \in {"connecting", "retry"} ~> link \in {"none", "connected", "down"}
=============================================================================
