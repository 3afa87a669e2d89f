------------------------- MODULE MetaPublish_proofs -------------------------
(***************************************************************************)
(* Proofs about MetaPublish, for any messages of any size and any bounds.  *)
(***************************************************************************)
EXTENDS MetaPublish, SequenceTheorems, FiniteSetTheorems, FunctionTheorems, TLAPS

-----------------------------------------------------------------------------
(* The JSON file *)

\* What an unfinished file holds: the bracket, and a comma after each message
\* but the last.
HoldsOpen(c, ms) ==
    /\ Len(c) = IF ms = <<>> THEN 1 ELSE 2 * Len(ms)
    /\ c[1] = "["
    /\ \A i \in 1..Len(ms) : c[2 * i] = ms[i]
    /\ \A i \in 1..(Len(ms) - 1) : c[2 * i + 1] = "comma"

\* Two tokens more at the end.
LEMMA ConcatTwo ==
    ASSUME NEW S, NEW c \in Seq(S), NEW x \in S, NEW y \in S
    PROVE  /\ c \o <<x, y>> \in Seq(S)
           /\ Len(c \o <<x, y>>) = Len(c) + 2
           /\ \A k \in 1..Len(c) : (c \o <<x, y>>)[k] = c[k]
           /\ (c \o <<x, y>>)[Len(c) + 1] = x
           /\ (c \o <<x, y>>)[Len(c) + 2] = y
OBVIOUS

\* One token more at the end.
LEMMA AppendOne ==
    ASSUME NEW S, NEW c \in Seq(S), NEW x \in S
    PROVE  /\ Append(c, x) \in Seq(S)
           /\ Len(Append(c, x)) = Len(c) + 1
           /\ \A k \in 1..Len(c) : Append(c, x)[k] = c[k]
           /\ Append(c, x)[Len(c) + 1] = x
OBVIOUS

\* The first message follows the bracket.
LEMMA OpenFirst ==
    ASSUME NEW c \in Seq(Token), NEW ms \in Seq(Message), ms = <<>>, HoldsOpen(c, ms),
           NEW m \in Message
    PROVE  HoldsOpen(Append(c, m), Append(ms, m))
<1>1. Len(c) = 1 /\ Len(ms) = 0
  BY DEF HoldsOpen
<1>2. Append(ms, m) # <<>> /\ Len(Append(ms, m)) = 1 /\ Append(ms, m)[1] = m
  BY <1>1
<1>3. Len(Append(c, m)) = 2 /\ Append(c, m)[1] = c[1] /\ Append(c, m)[2] = m
  <2>1. m \in Token
    BY DEF Token
  <2>2. /\ Len(Append(c, m)) = Len(c) + 1
        /\ \A k \in 1..Len(c) : Append(c, m)[k] = c[k]
        /\ Append(c, m)[Len(c) + 1] = m
    BY <2>1, AppendOne
  <2>. HIDE DEF Token
  <2>. QED
    BY <1>1, <2>2
<1>. QED
  BY <1>2, <1>3 DEF HoldsOpen

\* A later one follows a comma.
LEMMA OpenNext ==
    ASSUME NEW c \in Seq(Token), NEW ms \in Seq(Message), ms # <<>>, HoldsOpen(c, ms),
           NEW m \in Message
    PROVE  HoldsOpen(c \o <<"comma", m>>, Append(ms, m))
<1>. DEFINE d == c \o <<"comma", m>>
<1>1. /\ Len(d) = Len(c) + 2
      /\ \A k \in 1..Len(c) : d[k] = c[k]
      /\ d[Len(c) + 1] = "comma" /\ d[Len(c) + 2] = m
  BY ConcatTwo DEF Token
<1>2. Len(ms) \in Nat /\ Len(ms) > 0 /\ Len(c) = 2 * Len(ms)
  BY DEF HoldsOpen
<1>3. /\ Len(Append(ms, m)) = Len(ms) + 1
      /\ Append(ms, m) # <<>>
      /\ \A i \in 1..Len(ms) : Append(ms, m)[i] = ms[i]
      /\ Append(ms, m)[Len(ms) + 1] = m
  OBVIOUS
<1>. HIDE DEF d
<1>4. \A i \in 1..(Len(ms) + 1) : d[2 * i] = Append(ms, m)[i]
  BY <1>1, <1>2, <1>3, SMTT(30) DEF HoldsOpen
<1>5. \A i \in 1..Len(ms) : d[2 * i + 1] = "comma"
  BY <1>1, <1>2, <1>3, SMTT(30) DEF HoldsOpen
<1>6. d[1] = "[" /\ Len(d) = 2 * Len(Append(ms, m))
  BY <1>1, <1>2, <1>3 DEF HoldsOpen
<1>7. HoldsOpen(d, Append(ms, m))
  BY <1>3, <1>4, <1>5, <1>6 DEF HoldsOpen
<1>. QED
  BY <1>7 DEF d

\* The closing bracket makes it the array.
LEMMA OpenClosed ==
    ASSUME NEW c \in Seq(Token), NEW ms \in Seq(Message), HoldsOpen(c, ms)
    PROVE  c \o <<"]", "newline">> = JsonArray(ms)
<1> DEFINE n == Len(c)
           body == [i \in 1..(IF ms = <<>> THEN 0 ELSE 2 * Len(ms) - 1) |->
                       IF i % 2 = 1 THEN ms[(i + 1) \div 2] ELSE "comma"]
           begun == <<"[">> \o body
<1>1. n \in Nat /\ n > 0 /\ n - 1 = IF ms = <<>> THEN 0 ELSE 2 * Len(ms) - 1
  BY DEF HoldsOpen
<1>2. ASSUME NEW i \in 1..(n - 1) PROVE body[i] = c[i + 1]
  <2>1. ms # <<>> /\ n = 2 * Len(ms) /\ Len(ms) \in Nat
    BY <1>1 DEF HoldsOpen
  <2>2. CASE i % 2 = 1
    <3>1. PICK j \in 1..Len(ms) : i + 1 = 2 * j
      <4>1. (i + 1) \div 2 \in 1..Len(ms) /\ i + 1 = 2 * ((i + 1) \div 2)
        BY <2>1, <2>2
      <4>. QED
        BY <4>1
    <3>2. (i + 1) \div 2 = j
      BY <3>1
    <3>3. body[i] = ms[j]
      BY <1>1, <2>2, <3>2
    <3>. QED
      BY <3>1, <3>3 DEF HoldsOpen
  <2>3. CASE i % 2 # 1
    <3>1. PICK j \in 1..(Len(ms) - 1) : i = 2 * j
      <4>1. i \div 2 \in 1..(Len(ms) - 1) /\ i = 2 * (i \div 2)
        BY <2>1, <2>3
      <4>. QED
        BY <4>1
    <3>2. body[i] = "comma"
      BY <1>1, <2>3
    <3>. QED
      BY <3>1, <3>2 DEF HoldsOpen
  <2>. QED
    BY <2>2, <2>3
<1>3. body \in Seq(Token) /\ Len(body) = n - 1
  <2>1. ASSUME NEW i \in 1..(n - 1) PROVE body[i] \in Token
    <3>1. c[i + 1] \in Token
      BY <1>1, ElementOfSeq
    <3>. QED
      BY <1>2, <3>1
  <2>2. body = [i \in 1..(n - 1) |-> body[i]]
    BY <1>1
  <2>. HIDE DEF body
  <2>. QED
    BY <1>1, <2>1, <2>2
<1>. HIDE DEF body
<1>4. /\ begun \in Seq(Token)
      /\ Len(begun) = n
      /\ begun[1] = "["
      /\ \A k \in 2..n : begun[k] = body[k - 1]
  BY <1>1, <1>3 DEF Token
<1>. HIDE DEF begun
<1>5. begun = c
  <2>1. \A k \in 1..n : begun[k] = c[k]
    BY <1>1, <1>2, <1>4 DEF HoldsOpen
  <2>. QED
    BY <1>4, <2>1, SeqEqual
<1>. QED
  BY <1>5 DEF JsonArray, begun, body
-----------------------------------------------------------------------------
(* The invariant *)

\* An active element has the object of its method, and its counters are within
\* its properties; only a client of MQTT that was started has a connection.
StartedInv ==
    /\ active => /\ method_class = settings.method
                 /\ connection_attempt <= settings.max_connect_attempts
                 /\ sleep_time <= settings.max_reconnect_interval
                 /\ fatal => connection_attempt = settings.max_connect_attempts
    /\ link # "none" => active /\ method_class = "mqtt"

WritesJson == /\ active /\ method_class = "file"
              /\ settings.file_path = "file" /\ settings.file_format = "json"

\* The position that write_message_prefix looks at tells whether there is a
\* record before this one.
JsonInv ==
    WritesJson => /\ HoldsOpen(content["file"], accepted)
                  /\ IF accepted = <<>> THEN position["file"] = 1 ELSE position["file"] > 2

PublishInv ==
    /\ TypeOK
    /\ StartedInv
    /\ JsonInv
    /\ position["file"] >= 0

\* The types of the properties.
LEMMA SettingsFacts ==
    ASSUME NEW s \in Settings
    PROVE  /\ s.method \in {"file", "mqtt", "kafka"}
           /\ s.file_path \in Target
           /\ s.file_format \in {"json", "json-lines"}
           /\ s.max_connect_attempts \in 1..MaxAttempts
           /\ s.max_reconnect_interval \in 1..MaxInterval
BY DEF Settings

\* The defaults are values the properties may have.
LEMMA DefaultsFacts == Defaults \in Settings
BY BoundAssumption DEF Defaults, Settings, Target

\* Every token has a length; a message, and a comma with its line feed, is longer
\* than the bracket.
LEMMA SizeFacts ==
    /\ Message \subseteq Token /\ {"[", "comma", "]", "newline"} \subseteq Token
    /\ \A t \in Token : Size(t) \in Nat \ {0}
    /\ \A m \in Message : Size(m) >= 2
    /\ Size("[") = 1
BY BoundAssumption, TokenAssumption DEF Size, Token

\* Written tokens are at the end of their target, the other is as it was.
LEMMA PutFacts ==
    ASSUME TypeOK, NEW t \in Target, NEW x \in Token, Put(t, x)
    PROVE  /\ content' \in [Target -> Seq(Token)]
           /\ position' \in [Target -> Nat \cup {-1}]
           /\ content'[t] = Append(content[t], x)
           /\ position'[t] = Moved(position[t], Size(x))
           /\ \A u \in Target \ {t} : content'[u] = content[u] /\ position'[u] = position[u]
<1>1. content[t] \in Seq(Token) /\ position[t] \in Nat \cup {-1}
  BY DEF TypeOK
<1>2. Append(content[t], x) \in Seq(Token)
  BY <1>1
<1>3. Moved(position[t], Size(x)) \in Nat \cup {-1}
  BY <1>1, SizeFacts DEF Moved
<1>. QED
  BY <1>2, <1>3 DEF Put, TypeOK

\* Two tokens are written.
LEMMA PutTwoFacts ==
    ASSUME TypeOK, NEW t \in Target, NEW x \in Token, NEW y \in Token, PutTwo(t, x, y)
    PROVE  /\ content' \in [Target -> Seq(Token)]
           /\ position' \in [Target -> Nat \cup {-1}]
           /\ content'[t] = content[t] \o <<x, y>>
           /\ position'[t] = Moved(position[t], Size(x) + Size(y))
           /\ \A u \in Target \ {t} : content'[u] = content[u] /\ position'[u] = position[u]
<1>1. content[t] \in Seq(Token) /\ position[t] \in Nat \cup {-1}
  BY DEF TypeOK
<1>2. content[t] \o <<x, y>> \in Seq(Token)
  BY <1>1, ConcatTwo
<1>3. Moved(position[t], Size(x) + Size(y)) \in Nat \cup {-1}
  <2>1. Size(x) \in Nat /\ Size(y) \in Nat
    BY SizeFacts
  <2>. QED
    BY <1>1, <2>1 DEF Moved
<1>. QED
  BY <1>2, <1>3 DEF PutTwo, TypeOK

-----------------------------------------------------------------------------
(* Buffers *)

\* Writing a message keeps the file what an unfinished file is.
LEMMA WriteStep ==
    ASSUME PublishInv, NEW m \in Message, PublishFile(m)
    PROVE  PublishInv'
<1>. DEFINE t == settings.file_path
<1>1. t \in Target /\ content[t] \in Seq(Token) /\ position[t] \in Nat \cup {-1}
      /\ accepted \in Seq(Message) /\ position["file"] >= 0 /\ "file" \in Target
  BY SettingsFacts DEF PublishInv, TypeOK, Target
<1>2. \/ NeedsPrefix /\ PutTwo(t, "comma", m)
      \/ ~NeedsPrefix /\ settings.file_format = "json-lines" /\ PutTwo(t, m, "newline")
      \/ ~NeedsPrefix /\ settings.file_format # "json-lines" /\ Put(t, m)
  <2>1. NeedsPrefix => settings.file_format # "json-lines"
    BY DEF NeedsPrefix
  <2>2. WriteMessage(m)
    BY DEF PublishFile
  <2>. QED
    BY <2>1, <2>2 DEF WriteMessage
<1>. HIDE DEF t
<1>3. m \in Token /\ "comma" \in Token /\ "newline" \in Token
      /\ Size(m) \in Nat /\ Size("comma") \in Nat /\ Size("newline") \in Nat /\ Size(m) >= 2
      /\ Size("newline") > 0 /\ Size("comma") > 0
  BY SizeFacts
<1>4. /\ content' \in [Target -> Seq(Token)]
      /\ position' \in [Target -> Nat \cup {-1}]
      /\ position'["file"] >= position["file"]
      /\ t = "file" => position'["file"] >= position["file"] + 2
  <2>1. PICK n \in Nat : /\ n >= 2
                         /\ content' \in [Target -> Seq(Token)]
                         /\ position' \in [Target -> Nat \cup {-1}]
                         /\ position'[t] = Moved(position[t], n)
                         /\ \A u \in Target \ {t} : position'[u] = position[u]
    <3>1. CASE Put(t, m)
      BY <1>1, <1>3, <3>1, PutFacts DEF PublishInv
    <3>2. CASE PutTwo(t, "comma", m)
      <4>1. Size("comma") + Size(m) \in Nat /\ Size("comma") + Size(m) >= 2
        BY <1>3
      <4>. QED
        BY <1>1, <1>3, <3>2, <4>1, PutTwoFacts DEF PublishInv
    <3>3. CASE PutTwo(t, m, "newline")
      <4>1. Size(m) + Size("newline") \in Nat /\ Size(m) + Size("newline") >= 2
        BY <1>3
      <4>. QED
        BY <1>1, <1>3, <3>3, <4>1, PutTwoFacts DEF PublishInv
    <3>. QED
      BY <1>2, <3>1, <3>2, <3>3
  <2>2. position["file"] \in Nat
    BY <1>1 DEF PublishInv, TypeOK
  <2>3. CASE t = "file"
    BY <2>1, <2>2, <2>3 DEF Moved
  <2>4. CASE t # "file"
    BY <1>1, <2>1, <2>2, <2>4
  <2>. QED
    BY <2>3, <2>4, <2>1
<1>5. accepted' = Append(accepted, m) /\ accepted' \in Seq(Message) /\ accepted' # <<>>
  BY <1>1 DEF PublishFile
<1>6. UNCHANGED <<settings, starts, active, method_class, link, connection_attempt, sleep_time,
                  failures, losses, fatal, failed>>
  BY DEF PublishFile, Streaming, connVars, history
<1>7. TypeOK' /\ StartedInv' /\ position'["file"] >= 0
  <2>1. TypeOK'
    BY <1>4, <1>5, <1>6 DEF PublishInv, TypeOK
  <2>2. StartedInv'
    BY <1>6 DEF PublishInv, StartedInv
  <2>3. position["file"] \in Nat /\ position'["file"] \in Int
    BY <1>1, <1>4 DEF PublishInv, TypeOK
  <2>. QED
    BY <1>4, <2>1, <2>2, <2>3
<1>8. JsonInv'
  <2>. SUFFICES ASSUME WritesJson
                PROVE  /\ HoldsOpen(content'["file"], accepted')
                       /\ position'["file"] > 2
    BY <1>5, <1>6 DEF JsonInv, WritesJson
  <2>1. t = "file" /\ settings.file_format = "json" /\ HoldsOpen(content["file"], accepted)
        /\ content["file"] \in Seq(Token) /\ position["file"] \in Nat
        /\ (NeedsPrefix <=> position["file"] > 2)
    BY <1>1 DEF WritesJson, PublishInv, JsonInv, NeedsPrefix, t
  <2>2. CASE accepted = <<>>
    <3>1. position["file"] = 1 /\ ~NeedsPrefix
      BY <2>1, <2>2 DEF PublishInv, JsonInv
    <3>2. content'["file"] = Append(content["file"], m)
      BY <1>1, <1>2, <1>3, <2>1, <3>1, PutFacts DEF PublishInv
    <3>3. position'["file"] >= 3
      BY <1>4, <2>1, <3>1
    <3>4. position'["file"] > 2
      BY <1>1, <1>4, <3>3
    <3>. QED
      BY <1>1, <1>5, <2>1, <2>2, <3>2, <3>4, OpenFirst
  <2>3. CASE accepted # <<>>
    <3>1. position["file"] > 2 /\ NeedsPrefix
      BY <2>1, <2>3 DEF PublishInv, JsonInv
    <3>2. content'["file"] = content["file"] \o <<"comma", m>>
      BY <1>1, <1>2, <1>3, <2>1, <3>1, PutTwoFacts DEF PublishInv
    <3>3. position'["file"] \in Nat /\ position'["file"] > 2
      BY <1>1, <1>4, <2>1, <3>1
    <3>. QED
      BY <1>1, <1>5, <2>1, <2>3, <3>2, <3>3, OpenNext
  <2>. QED
    BY <2>2, <2>3
<1>. QED
  BY <1>7, <1>8 DEF PublishInv

\* A step that writes nothing and accepts nothing, with an element that writes
\* JSON or does not, keeps the file as it was.
LEMMA JsonKept ==
    ASSUME PublishInv, UNCHANGED fileVars, WritesJson' => WritesJson /\ accepted' = accepted
    PROVE  JsonInv' /\ position'["file"] >= 0
BY DEF PublishInv, JsonInv, fileVars

-----------------------------------------------------------------------------
(* Start and stop *)

\* Starting keeps everything but the file.
LEMMA StartingFacts ==
    ASSUME PublishInv, NEW ok \in BOOLEAN, Starting(ok),
           link' \in {"none", "connecting"},
           link' # "none" => ok /\ settings.method = "mqtt",
           content' \in [Target -> Seq(Token)], position' \in [Target -> Nat \cup {-1}]
    PROVE  TypeOK' /\ StartedInv' /\ accepted' = <<>>
<1>1. settings' = settings /\ settings \in Settings
  BY DEF Starting, PublishInv, TypeOK
<1>2. /\ settings.method \in {"file", "mqtt", "kafka"}
      /\ settings.max_connect_attempts \in 1..MaxAttempts
      /\ settings.max_reconnect_interval \in 1..MaxInterval
  BY <1>1, SettingsFacts
<1>3. TypeOK'
  <2>1. starts' \in 0..MaxStarts
    BY BoundAssumption DEF Starting, PublishInv, TypeOK
  <2>2. connection_attempt' \in 1..MaxAttempts /\ sleep_time' \in 1..MaxInterval
    BY BoundAssumption DEF Starting
  <2>3. accepted' \in Seq(Message)
    BY DEF Starting
  <2>4. failures' \in 0..MaxAttempts /\ losses' \in 0..MaxAttempts
    BY BoundAssumption DEF Starting
  <2>. QED
    BY <2>4, <1>1, <1>2, <2>1, <2>2, <2>3 DEF Starting, PublishInv, TypeOK
<1>4. StartedInv'
  BY <1>1, <1>2, BoundAssumption DEF Starting, PublishInv, TypeOK, StartedInv
<1>. QED
  BY <1>3, <1>4 DEF Starting

\* A file is opened, or cannot be.
LEMMA StartFileStep == ASSUME PublishInv, StartFile PROVE PublishInv'
<1>1. settings \in Settings /\ settings.file_path \in Target /\ link = "none"
      /\ settings.file_format \in {"json", "json-lines"} /\ "file" \in Target
      /\ content \in [Target -> Seq(Token)] /\ position \in [Target -> Nat \cup {-1}]
      /\ position["file"] >= 0 /\ link' = link
  BY SettingsFacts DEF StartFile, Starting, PublishInv, TypeOK, StartedInv, Target
<1>2. CASE Starting(FALSE) /\ UNCHANGED fileVars
  <2>1. TypeOK' /\ StartedInv'
    BY <1>1, <1>2, StartingFacts DEF fileVars
  <2>2. ~WritesJson'
    BY <1>2 DEF Starting, WritesJson
  <2>. QED
    BY <1>2, <2>1, <2>2, JsonKept DEF PublishInv
<1>3. CASE Starting(TRUE) /\ InitializeFile
  <2>1. settings' = settings /\ accepted' = <<>>
    BY <1>3 DEF Starting
  <2>2. CASE settings.file_path = "stdout" /\ UNCHANGED fileVars
    <3>1. TypeOK' /\ StartedInv'
      BY <1>1, <1>3, <2>2, StartingFacts DEF fileVars
    <3>2. ~WritesJson'
      BY <2>1, <2>2 DEF WritesJson
    <3>. QED
      BY <2>2, <3>1, <3>2, JsonKept DEF PublishInv
  <2>3. CASE /\ settings.file_path = "file" /\ settings.file_format = "json"
             /\ content' = [content EXCEPT !["file"] = <<"[">>]
             /\ position' = [position EXCEPT !["file"] = Size("[")]
    <3>1. "[" \in Token /\ Size("[") = 1
      BY SizeFacts
    <3>2. <<"[">> \in Seq(Token) /\ Len(<<"[">>) = 1 /\ <<"[">>[1] = "["
      BY <3>1
    <3>3. content' \in [Target -> Seq(Token)] /\ position' \in [Target -> Nat \cup {-1}]
          /\ content'["file"] = <<"[">> /\ position'["file"] = 1
      BY <1>1, <2>3, <3>1, <3>2
    <3>4. TypeOK' /\ StartedInv'
      BY <1>1, <1>3, <3>3, StartingFacts
    <3>5. HoldsOpen(content'["file"], accepted')
      BY <2>1, <3>2, <3>3 DEF HoldsOpen
    <3>. QED
      BY <2>1, <3>3, <3>4, <3>5 DEF PublishInv, JsonInv
  <2>4. CASE /\ settings.file_format # "json"
             /\ position' = [position EXCEPT !["file"] = 0]
             /\ UNCHANGED content
    <3>1. position' \in [Target -> Nat \cup {-1}] /\ position'["file"] = 0
      BY <1>1, <2>4
    <3>2. TypeOK' /\ StartedInv'
      BY <1>1, <1>3, <2>4, <3>1, StartingFacts
    <3>3. ~WritesJson'
      BY <2>1, <2>4 DEF WritesJson
    <3>. QED
      BY <3>1, <3>2, <3>3 DEF PublishInv, JsonInv
  <2>. QED
    BY <1>1, <1>3, <2>2, <2>3, <2>4 DEF InitializeFile, Target
<1>. QED
  BY <1>2, <1>3 DEF StartFile

\* A start of another method does not touch the file.
LEMMA StartClientStep == ASSUME PublishInv, StartMqtt \/ StartKafka PROVE PublishInv'
<1>1. UNCHANGED fileVars /\ settings.method # "file"
  BY DEF StartMqtt, StartKafka
<1>2. PICK ok \in BOOLEAN : /\ Starting(ok)
                            /\ link' \in {"none", "connecting"}
                            /\ link' # "none" => ok /\ settings.method = "mqtt"
  <2>1. link = "none"
    BY DEF StartMqtt, StartKafka, Starting, PublishInv, StartedInv
  <2>. QED
    BY <2>1 DEF StartMqtt, StartKafka
<1>3. TypeOK' /\ StartedInv'
  BY <1>1, <1>2, StartingFacts DEF fileVars, PublishInv, TypeOK
<1>4. ~WritesJson'
  BY <1>1, <1>2 DEF Starting, WritesJson
<1>. QED
  BY <1>1, <1>3, <1>4, JsonKept DEF PublishInv

\* FinalizeFile writes to the target, and stop forgets the rest.
LEMMA StopFileStep == ASSUME PublishInv, StopFile PROVE PublishInv'
<1>1. settings.file_path \in Target /\ "file" \in Target
      /\ position["file"] \in Nat
  BY SettingsFacts DEF PublishInv, TypeOK, Target
<1>2. /\ content' \in [Target -> Seq(Token)]
      /\ position' \in [Target -> Nat \cup {-1}]
      /\ position'["file"] >= 0
  <2> DEFINE t == settings.file_path
  <2>1. "]" \in Token /\ "newline" \in Token /\ Size("]") \in Nat /\ Size("newline") \in Nat
        /\ Size("]") + Size("newline") \in Nat
    BY SizeFacts
  <2>2. CASE Put(t, "newline")
    <3>1. CASE t = "file"
      BY <1>1, <2>1, <2>2, <3>1, PutFacts DEF PublishInv, Moved
    <3>2. CASE t # "file"
      BY <1>1, <2>1, <2>2, <3>2, PutFacts DEF PublishInv
    <3>. QED
      BY <3>1, <3>2
  <2>3. CASE PutTwo(t, "]", "newline")
    <3>1. CASE t = "file"
      <4>1. position'["file"] = Moved(position["file"], Size("]") + Size("newline"))
        BY <1>1, <2>1, <2>3, <3>1, PutTwoFacts DEF PublishInv
      <4>2. position'["file"] >= 0
        BY <1>1, <2>1, <4>1 DEF Moved
      <4>. QED
        BY <1>1, <2>1, <2>3, <3>1, <4>2, PutTwoFacts DEF PublishInv
    <3>2. CASE t # "file"
      BY <1>1, <2>1, <2>3, <3>2, PutTwoFacts DEF PublishInv
    <3>. QED
      BY <3>1, <3>2
  <2>. QED
    BY <2>2, <2>3 DEF StopFile, FinalizeFile
<1>3. TypeOK'
  BY <1>2, DefaultsFacts DEF StopFile, Reset, connVars, history, PublishInv, TypeOK
<1>. QED
  BY <1>2, <1>3 DEF StopFile, Reset, connVars, PublishInv, StartedInv, JsonInv, WritesJson

\* The histories stop at their bound.
LEMMA CountedFacts ==
    ASSUME NEW k \in 0..MaxAttempts, NEW n \in 0..MaxAttempts
    PROVE  Counted(k + n) \in 0..MaxAttempts
BY BoundAssumption DEF Counted

\* Attempts are counted up to the configured number.
LEMMA ErrorFacts ==
    ASSUME PublishInv, active, NEW n \in 0..MaxAttempts, ErrorCb(n)
    PROVE  /\ connection_attempt' \in 1..settings.max_connect_attempts
           /\ fatal' \in BOOLEAN
           /\ fatal' => connection_attempt' = settings.max_connect_attempts
           /\ settings.max_connect_attempts \in 1..MaxAttempts
           /\ failures' \in 0..MaxAttempts /\ losses' \in 0..MaxAttempts
<1>1. /\ settings.max_connect_attempts \in 1..MaxAttempts
      /\ connection_attempt \in 1..settings.max_connect_attempts
      /\ n \in Nat
  BY SettingsFacts, BoundAssumption DEF PublishInv, TypeOK, StartedInv
<1>2. fatal => connection_attempt = settings.max_connect_attempts
  BY DEF PublishInv, StartedInv
<1>3. failures' \in 0..MaxAttempts /\ losses' \in 0..MaxAttempts
  BY CountedFacts DEF ErrorCb, PublishInv, TypeOK
<1>4. /\ connection_attempt' = IF connection_attempt + n > settings.max_connect_attempts
                                THEN settings.max_connect_attempts ELSE connection_attempt + n
      /\ fatal' = (fatal \/ connection_attempt + n > settings.max_connect_attempts)
  BY DEF ErrorCb
<1>5. connection_attempt' \in 1..settings.max_connect_attempts
  BY <1>1, <1>4
<1>6. fatal' \in BOOLEAN
  BY <1>4
<1>7. ASSUME fatal' PROVE connection_attempt' = settings.max_connect_attempts
  <2>1. CASE fatal
    <3>1. connection_attempt = settings.max_connect_attempts
      BY <1>2, <2>1
    <3>. QED
      BY <1>1, <1>4, <3>1
  <2>2. CASE connection_attempt + n > settings.max_connect_attempts
    BY <1>4, <2>2
  <2>. QED
    BY <1>4, <1>7, <2>1, <2>2
<1>. QED
  BY <1>1, <1>3, <1>5, <1>6, <1>7

\* A client is stopped, or refuses to disconnect.
LEMMA StopClientStep == ASSUME PublishInv, StopMqtt \/ StopKafka PROVE PublishInv'
<1>1. CASE StopKafka
  <2>1. /\ connection_attempt' \in 1..MaxAttempts /\ fatal' \in BOOLEAN
        /\ failures' \in 0..MaxAttempts /\ losses' \in 0..MaxAttempts
    BY <1>1, ErrorFacts, BoundAssumption DEF StopKafka, Reset
  <2>2. link = "none"
    BY <1>1 DEF StopKafka, PublishInv, StartedInv
  <2>3. TypeOK' /\ StartedInv' /\ ~WritesJson'
    BY <1>1, <2>1, <2>2, DefaultsFacts
    DEF StopKafka, Reset, fileVars, PublishInv, TypeOK, StartedInv, WritesJson
  <2>. QED
    BY <1>1, <2>3, JsonKept DEF StopKafka, PublishInv
<1>2. CASE StopMqtt
  <2>1. TypeOK' /\ StartedInv' /\ ~WritesJson'
    BY <1>2, DefaultsFacts
    DEF StopMqtt, Reset, fileVars, history, PublishInv, TypeOK, StartedInv, WritesJson
  <2>. QED
    BY <1>2, <2>1, JsonKept DEF StopMqtt, PublishInv
<1>. QED
  BY <1>1, <1>2

-----------------------------------------------------------------------------
(* Connections *)

\* Retry keeps both counters within the properties, and gives up only at the
\* configured attempt.
LEMMA RetryFacts ==
    ASSUME PublishInv, active, Retry
    PROVE  /\ link' \in {"retry", "down"}
           /\ connection_attempt' \in 1..settings.max_connect_attempts
           /\ sleep_time' \in 1..settings.max_reconnect_interval
           /\ fatal' \in BOOLEAN
           /\ fatal' => connection_attempt' = settings.max_connect_attempts
           /\ settings.max_connect_attempts \in 1..MaxAttempts
           /\ settings.max_reconnect_interval \in 1..MaxInterval
<1>1. /\ settings.max_connect_attempts \in 1..MaxAttempts
      /\ settings.max_reconnect_interval \in 1..MaxInterval
      /\ connection_attempt \in 1..settings.max_connect_attempts
      /\ sleep_time \in 1..settings.max_reconnect_interval
  BY SettingsFacts, BoundAssumption DEF PublishInv, TypeOK, StartedInv
<1>2. fatal \in BOOLEAN /\ (fatal => connection_attempt = settings.max_connect_attempts)
  BY DEF PublishInv, TypeOK, StartedInv
<1>3. CASE connection_attempt = settings.max_connect_attempts
  BY <1>1, <1>2, <1>3 DEF Retry
<1>4. CASE connection_attempt # settings.max_connect_attempts
  BY <1>1, <1>2, <1>4 DEF Retry
<1>. QED
  BY <1>3, <1>4

\* The client answers, or loses its connection.
LEMMA ConnectionStep ==
    ASSUME PublishInv, Callback \/ ConnectionLost
    PROVE  PublishInv'
<1>1. UNCHANGED <<settings, starts, active, method_class, fileVars, accepted, failed>>
  BY DEF Callback, OnConnectSuccess, OnConnectFailure, Reconnect, ConnectionLost
<1>2. active /\ method_class = "mqtt"
  BY DEF Callback, OnConnectSuccess, OnConnectFailure, Reconnect, ConnectionLost, PublishInv, StartedInv
<1>3. /\ link' \in {"connecting", "connected", "retry", "down"}
      /\ connection_attempt' \in 1..MaxAttempts /\ sleep_time' \in 1..MaxInterval
      /\ connection_attempt' <= settings.max_connect_attempts
      /\ sleep_time' <= settings.max_reconnect_interval
      /\ fatal' \in BOOLEAN
      /\ fatal' => connection_attempt' = settings.max_connect_attempts
  <2>1. CASE Retry
    BY <1>2, <2>1, RetryFacts, BoundAssumption
  <2>2. CASE link' \in {"connecting", "connected", "down"}
             /\ UNCHANGED <<connection_attempt, sleep_time, fatal>>
    BY <1>2, <2>2 DEF PublishInv, TypeOK, StartedInv
  <2>. QED
    BY <2>1, <2>2 DEF Callback, OnConnectSuccess, OnConnectFailure, Reconnect, ConnectionLost
<1>4. failures' \in 0..MaxAttempts /\ losses' \in 0..MaxAttempts
  <2>1. 1 \in 0..MaxAttempts
    BY BoundAssumption
  <2>. QED
    BY <2>1, CountedFacts
    DEF Callback, OnConnectSuccess, OnConnectFailure, Reconnect, ConnectionLost, history,
        PublishInv, TypeOK
<1>5. TypeOK' /\ StartedInv'
  BY <1>1, <1>2, <1>3, <1>4 DEF fileVars, PublishInv, TypeOK, StartedInv
<1>. QED
  BY <1>1, <1>2, <1>5, JsonKept DEF PublishInv, WritesJson

\* A message for a broker.
LEMMA ClientStep ==
    ASSUME PublishInv, NEW m \in Message, PublishMqtt(m) \/ PublishKafka(m)
    PROVE  PublishInv'
<1>1. UNCHANGED <<settings, starts, active, method_class, fileVars, link, sleep_time>>
      /\ active /\ method_class # "file"
  BY DEF PublishMqtt, PublishKafka, Streaming, connVars
<1>2. accepted' \in Seq(Message) /\ failed' \in BOOLEAN
  <2>1. Append(accepted, m) \in Seq(Message)
    BY DEF PublishInv, TypeOK
  <2>. QED
    BY <2>1 DEF PublishMqtt, PublishKafka, PublishInv, TypeOK
<1>3. /\ connection_attempt' \in 1..MaxAttempts
      /\ connection_attempt' <= settings.max_connect_attempts
      /\ fatal' \in BOOLEAN
      /\ fatal' => connection_attempt' = settings.max_connect_attempts
      /\ failures' \in 0..MaxAttempts /\ losses' \in 0..MaxAttempts
  <2>1. CASE PublishKafka(m)
    BY <1>1, <2>1, ErrorFacts, BoundAssumption DEF PublishKafka
  <2>2. CASE PublishMqtt(m)
    BY <1>1, <2>2 DEF PublishMqtt, connVars, history, PublishInv, TypeOK, StartedInv
  <2>. QED
    BY <2>1, <2>2
<1>4. TypeOK' /\ StartedInv' /\ ~WritesJson'
  BY <1>1, <1>2, <1>3 DEF fileVars, PublishInv, TypeOK, StartedInv, WritesJson
<1>. QED
  BY <1>1, <1>4, JsonKept DEF PublishInv

\* The application sets properties.
LEMMA SetPropertyStep == ASSUME PublishInv, SetProperty PROVE PublishInv'
<1>1. TypeOK' /\ StartedInv' /\ ~WritesJson' /\ UNCHANGED fileVars
  BY DEF SetProperty, fileVars, connVars, history, PublishInv, TypeOK, StartedInv, WritesJson
<1>. QED
  BY <1>1, JsonKept DEF PublishInv

-----------------------------------------------------------------------------
(* The doubling of the interval *)

\* A power of two is the number of subsets of a set.
LEMMA PowerCounts ==
    ASSUME NEW n \in Nat
    PROVE  /\ IsFiniteSet(SUBSET (1..n))
           /\ Cardinality(SUBSET (1..n)) = 2^n
           /\ 2^n \in Nat
<1>1. IsFiniteSet(1..n) /\ Cardinality(1..n) = n
  <2>1. 1 \in Int /\ n \in Int /\ (IF 1 > n THEN 0 ELSE n - 1 + 1) = n
    OBVIOUS
  <2>. QED
    BY <2>1, FS_Interval
<1>2. IsFiniteSet(SUBSET (1..n)) /\ Cardinality(SUBSET (1..n)) = 2^n
  BY <1>1, FS_SUBSET
<1>. QED
  BY <1>2, FS_CardinalityType

\* Half of the subsets have the new element.
LEMMA PowerDoubles ==
    ASSUME NEW n \in Nat
    PROVE  2^(n + 1) = 2 * 2^n
<1> DEFINE P == SUBSET (1..n)
           Q == {X \cup {n + 1} : X \in P}
           f == [X \in P |-> X \cup {n + 1}]
<1>1. IsFiniteSet(P) /\ Cardinality(P) = 2^n /\ 2^n \in Nat
  BY PowerCounts
<1>2. \A X \in P : n + 1 \notin X
  OBVIOUS
<1>3. f \in Bijection(P, Q)
  <2>1. f \in [P -> Q] /\ \A X \in P : f[X] = X \cup {n + 1}
    OBVIOUS
  <2>2. ASSUME NEW X \in P, NEW Y \in P, f[X] = f[Y] PROVE X = Y
    BY <1>2, <2>1, <2>2
  <2>3. \A Z \in Q : \E X \in P : f[X] = Z
    BY <2>1
  <2>. QED
    BY <2>1, <2>2, <2>3, Fun_IsBij
<1>4. IsFiniteSet(Q) /\ Cardinality(Q) = 2^n
  BY <1>1, <1>3, FS_Bijection DEF ExistsBijection
<1>5. P \cap Q = {} /\ Cardinality(P \cap Q) = 0
  BY <1>2, FS_EmptySet, ZenonT(30)
<1>6. SUBSET (1..(n + 1)) = P \cup Q
  <2>1. ASSUME NEW Y \in SUBSET (1..(n + 1)), n + 1 \in Y PROVE Y \in Q
    <3>1. Y \ {n + 1} \in P /\ Y = (Y \ {n + 1}) \cup {n + 1}
      BY <2>1
    <3>. QED
      BY <3>1
  <2>2. \A Y \in SUBSET (1..(n + 1)) : n + 1 \notin Y => Y \in P
    OBVIOUS
  <2>3. n + 1 \in 1..(n + 1) /\ 1..n \subseteq 1..(n + 1)
    OBVIOUS
  <2>4. \A X \in P : X \subseteq 1..(n + 1) /\ X \cup {n + 1} \subseteq 1..(n + 1)
    BY <2>3
  <2>5. P \cup Q \subseteq SUBSET (1..(n + 1))
    BY <2>4
  <2>. QED
    BY <2>1, <2>2, <2>5
<1>7. Cardinality(P \cup Q) = 2^(n + 1)
  <2>1. n + 1 \in Nat
    OBVIOUS
  <2>2. Cardinality(SUBSET (1..(n + 1))) = 2^(n + 1)
    BY <2>1, PowerCounts
  <2>. QED
    BY <1>6, <2>2
<1>. HIDE DEF P, Q
<1>8. Cardinality(P \cup Q) = 2^n + 2^n - 0
  BY <1>1, <1>4, <1>5, FS_Union
<1>. QED
  BY <1>1, <1>7, <1>8

\* The length of the last sleep of a client that is started, one second before the
\* first; it is doubled before each sleep.
Doubled(n, max) == IF 2^n > max THEN max ELSE 2^n

SleepInv == active /\ method_class = "mqtt" =>
                sleep_time = Doubled(connection_attempt - 1, settings.max_reconnect_interval)

\* One failure more.
LEMMA DoubledNext ==
    ASSUME NEW n \in Nat, NEW max \in Nat \ {0}
    PROVE  /\ Doubled(0, max) = 1
           /\ Doubled(n + 1, max) = LET s == Doubled(n, max)
                                    IN IF 2 * s > max THEN max ELSE 2 * s
<1>1. 2^0 = 1
  OBVIOUS
<1>2. 2^n \in Nat /\ 2^(n + 1) = 2 * 2^n
  BY PowerCounts, PowerDoubles
<1> DEFINE p == 2^n
           q == 2^(n + 1)
<1>3. p \in Nat /\ q = 2 * p
  BY <1>2
<1>. HIDE DEF p, q
<1>4. (IF q > max THEN max ELSE q) =
         LET s == IF p > max THEN max ELSE p IN IF 2 * s > max THEN max ELSE 2 * s
  BY <1>3
<1>5. Doubled(n, max) = (IF p > max THEN max ELSE p)
  BY DEF Doubled, p
<1>6. Doubled(n + 1, max) = (IF q > max THEN max ELSE q)
  BY DEF Doubled, q
<1>7. Doubled(0, max) = 1
  BY <1>1 DEF Doubled
<1>. QED
  BY <1>4, <1>5, <1>6, <1>7

\* Every step of a started client keeps it.
LEMMA SleepStep == PublishInv /\ SleepInv /\ [Next]_vars => SleepInv'
<1>. SUFFICES ASSUME PublishInv, SleepInv, [Next]_vars, active', method_class' = "mqtt"
              PROVE  sleep_time' = Doubled(connection_attempt' - 1,
                                           settings'.max_reconnect_interval)
  BY DEF SleepInv
<1>1. /\ settings \in Settings /\ connection_attempt \in 1..MaxAttempts
      /\ active /\ method_class = "mqtt" => TRUE
  BY DEF PublishInv, TypeOK
<1>2. settings.max_reconnect_interval \in Nat \ {0}
  BY <1>1, SettingsFacts, BoundAssumption
<1>3. CASE Start
  <2>1. connection_attempt' = 1 /\ sleep_time' = 1 /\ settings' = settings
    BY <1>3 DEF Start, StartFile, StartMqtt, StartKafka, Starting
  <2>. QED
    BY <1>2, <2>1, DoubledNext
<1>4. CASE Retry /\ UNCHANGED <<settings, active, method_class>>
  <2>1. connection_attempt - 1 \in Nat
    BY <1>1, BoundAssumption
  <2>2. sleep_time = Doubled(connection_attempt - 1, settings.max_reconnect_interval)
    BY <1>4 DEF SleepInv
  <2>3. CASE UNCHANGED <<connection_attempt, sleep_time>>
    BY <1>4, <2>2, <2>3
  <2>4. CASE /\ connection_attempt' = connection_attempt + 1
             /\ sleep_time' = IF 2 * sleep_time > settings.max_reconnect_interval
                                THEN settings.max_reconnect_interval ELSE 2 * sleep_time
    <3>1. connection_attempt' - 1 = (connection_attempt - 1) + 1
      BY <2>1, <2>4, <1>1, BoundAssumption
    <3>. QED
      BY <1>2, <1>4, <2>1, <2>2, <2>4, <3>1, DoubledNext
  <2>. QED
    BY <1>4, <2>3, <2>4 DEF Retry
<1>5. CASE UNCHANGED <<settings, active, method_class, connection_attempt, sleep_time>>
  BY <1>5 DEF SleepInv
<1>6. \/ Start
      \/ Retry /\ UNCHANGED <<settings, active, method_class>>
      \/ UNCHANGED <<settings, active, method_class, connection_attempt, sleep_time>>
      \/ ~active' \/ method_class' # "mqtt"
  <2>1. CASE Callback \/ ConnectionLost
    BY <2>1 DEF Callback, OnConnectSuccess, OnConnectFailure, Reconnect, ConnectionLost
  <2>2. CASE SetProperty \/ UNCHANGED vars
    BY <2>2 DEF SetProperty, vars
  <2>3. CASE Stop
    BY <2>3 DEF Stop, StopFile, StopMqtt, StopKafka, Reset
  <2>4. ASSUME NEW m \in Message, PublishFile(m) \/ PublishMqtt(m) \/ PublishKafka(m)
        PROVE  \/ UNCHANGED <<settings, active, method_class, connection_attempt, sleep_time>>
               \/ method_class' # "mqtt"
    BY <2>4 DEF PublishFile, PublishMqtt, PublishKafka, Streaming, connVars
  <2>. QED
    BY <2>1, <2>2, <2>3, <2>4 DEF Next
<1>. QED
  BY <1>3, <1>4, <1>5, <1>6

-----------------------------------------------------------------------------
(* Theorems *)

\* What a client counted: its attempt is one more than the failures and losses until
\* it gives up, and then the MQTT client does nothing more.
HistoryInv == active /\ method_class # "file" =>
    /\ ~fatal => failures + losses = connection_attempt - 1
    /\ fatal => failures + losses >= settings.max_connect_attempts
    /\ method_class = "mqtt" =>
          /\ failures + losses <= settings.max_connect_attempts
          /\ fatal => link \notin {"connecting", "connected", "retry"}

\* One failure or loss more of the MQTT client.
LEMMA RetryHistory ==
    ASSUME PublishInv, HistoryInv, active, method_class = "mqtt", Retry,
           link \in {"connecting", "connected"},
           \/ failures' = Counted(failures + 1) /\ losses' = losses
           \/ losses' = Counted(losses + 1) /\ failures' = failures,
           UNCHANGED <<settings, active, method_class>>
    PROVE  HistoryInv'
<1>1. /\ settings.max_connect_attempts \in 1..MaxAttempts
      /\ connection_attempt \in 1..settings.max_connect_attempts
      /\ failures \in Nat /\ losses \in Nat /\ MaxAttempts \in Nat
  BY SettingsFacts, BoundAssumption DEF PublishInv, TypeOK, StartedInv
<1>2. ~fatal /\ failures + losses = connection_attempt - 1
  BY DEF HistoryInv
<1>3. failures' + losses' = connection_attempt
  BY <1>1, <1>2 DEF Counted
<1>4. CASE connection_attempt = settings.max_connect_attempts
  BY <1>1, <1>3, <1>4 DEF Retry, HistoryInv
<1>5. CASE connection_attempt # settings.max_connect_attempts
  <2>1. /\ link' = "retry" /\ connection_attempt' = connection_attempt + 1 /\ ~fatal'
        /\ connection_attempt <= settings.max_connect_attempts
    BY <1>1, <1>2, <1>5 DEF Retry
  <2>. QED
    BY <1>1, <1>3, <2>1 DEF HistoryInv
<1>. QED
  BY <1>4, <1>5

\* Errors of the Kafka client, any number at a time.
LEMMA ErrorHistory ==
    ASSUME PublishInv, HistoryInv, active, method_class = "kafka", NEW n \in 0..MaxAttempts,
           ErrorCb(n), UNCHANGED <<settings, active, method_class>>
    PROVE  HistoryInv'
<1>1. /\ settings.max_connect_attempts \in 1..MaxAttempts
      /\ connection_attempt \in 1..settings.max_connect_attempts
      /\ failures \in Nat /\ losses \in Nat /\ MaxAttempts \in Nat
      /\ fatal => connection_attempt = settings.max_connect_attempts
  BY SettingsFacts, BoundAssumption DEF PublishInv, TypeOK, StartedInv
<1>2. /\ failures' = Counted(failures + n) /\ losses' = losses
      /\ fatal' <=> fatal \/ connection_attempt + n > settings.max_connect_attempts
      /\ connection_attempt' = IF connection_attempt + n > settings.max_connect_attempts
                                 THEN settings.max_connect_attempts ELSE connection_attempt + n
  BY DEF ErrorCb
<1>3. /\ ~fatal => failures + losses = connection_attempt - 1
      /\ fatal => failures + losses >= settings.max_connect_attempts
  BY DEF HistoryInv
<1>4. CASE fatal
  <2>1. fatal' /\ failures' + losses' >= settings.max_connect_attempts
    BY <1>1, <1>2, <1>3, <1>4 DEF Counted
  <2>. QED
    BY <2>1 DEF HistoryInv
<1>5. CASE ~fatal /\ connection_attempt + n > settings.max_connect_attempts
  <2>1. fatal' /\ failures' + losses' >= settings.max_connect_attempts
    BY <1>1, <1>2, <1>3, <1>5 DEF Counted
  <2>. QED
    BY <2>1 DEF HistoryInv
<1>6. CASE ~fatal /\ ~(connection_attempt + n > settings.max_connect_attempts)
  <2>1. ~fatal' /\ failures' + losses' = connection_attempt' - 1
    BY <1>1, <1>2, <1>3, <1>6 DEF Counted
  <2>. QED
    BY <2>1 DEF HistoryInv
<1>. QED
  BY <1>4, <1>5, <1>6

\* Every step of a client keeps the count.
LEMMA HistoryStep == PublishInv /\ HistoryInv /\ [Next]_vars => HistoryInv'
<1>. SUFFICES ASSUME PublishInv, HistoryInv, [Next]_vars PROVE HistoryInv'
  OBVIOUS
<1>1. CASE Start
  <2>1. /\ connection_attempt' = 1 /\ failures' = 0 /\ losses' = 0 /\ ~fatal' /\ settings' = settings
    BY <1>1 DEF Start, StartFile, StartMqtt, StartKafka, Starting
  <2>2. settings.max_connect_attempts \in Nat
    BY SettingsFacts, BoundAssumption DEF PublishInv, TypeOK
  <2>. QED
    BY <2>1, <2>2 DEF HistoryInv
<1>2. CASE OnConnectFailure \/ ConnectionLost
  <2>1. active /\ method_class = "mqtt"
    BY <1>2 DEF OnConnectFailure, ConnectionLost, PublishInv, StartedInv
  <2>. QED
    BY <1>2, <2>1, RetryHistory DEF OnConnectFailure, ConnectionLost
<1>3. CASE OnConnectSuccess \/ Reconnect
  <2>1. link \in {"connecting", "retry"}
        /\ UNCHANGED <<settings, active, method_class, connection_attempt, failures, losses, fatal>>
    BY <1>3 DEF OnConnectSuccess, Reconnect, history
  <2>. QED
    BY <2>1 DEF HistoryInv
<1>4. ASSUME NEW m \in Message, PublishKafka(m) PROVE HistoryInv'
  BY <1>4, ErrorHistory DEF PublishKafka, Streaming
<1>5. ASSUME NEW m \in Message, PublishFile(m) \/ PublishMqtt(m) PROVE HistoryInv'
  BY <1>5 DEF PublishFile, PublishMqtt, Streaming, connVars, history, HistoryInv
<1>6. CASE SetProperty
  BY <1>6 DEF SetProperty, HistoryInv
<1>7. CASE Stop
  <2>1. ~active' \/ UNCHANGED <<settings, active, method_class, connection_attempt, history, fatal, link>>
    BY <1>7 DEF Stop, StopFile, StopMqtt, StopKafka, Reset
  <2>. QED
    BY <2>1 DEF HistoryInv, history
<1>8. CASE UNCHANGED vars
  BY <1>8 DEF vars, history, HistoryInv
<1>. QED
  BY <1>1, <1>2, <1>3, <1>4, <1>5, <1>6, <1>7, <1>8 DEF Next, Callback

\* A new element.
LEMMA InitInv == Init => PublishInv
<1>. SUFFICES ASSUME Init PROVE PublishInv
  OBVIOUS
<1>1. /\ content \in [Target -> Seq(Token)] /\ accepted \in Seq(Message)
      /\ position \in [Target -> Nat \cup {-1}]
  <2>1. <<>> \in Seq(Token) /\ <<>> \in Seq(Message)
    OBVIOUS
  <2>. QED
    BY <2>1 DEF Init
<1>2. 1 \in 1..MaxAttempts /\ 1 \in 1..MaxInterval /\ 0 \in 0..MaxStarts /\ 0 \in 0..MaxAttempts
  BY BoundAssumption
<1>3. TypeOK
  BY <1>1, <1>2 DEF Init, TypeOK
<1>. QED
  BY <1>3 DEF Init, PublishInv, StartedInv, JsonInv, WritesJson, Target

\* Every step keeps the invariant.
LEMMA NextInv == PublishInv /\ [Next]_vars => PublishInv'
<1>. SUFFICES ASSUME PublishInv, [Next]_vars PROVE PublishInv'
  OBVIOUS
<1>1. CASE SetProperty
  BY <1>1, SetPropertyStep
<1>2. CASE Start
  BY <1>2, StartFileStep, StartClientStep DEF Start
<1>3. CASE Stop
  BY <1>3, StopFileStep, StopClientStep DEF Stop
<1>4. CASE Callback \/ ConnectionLost
  BY <1>4, ConnectionStep
<1>5. ASSUME NEW m \in Message, PublishFile(m) \/ PublishMqtt(m) \/ PublishKafka(m)
      PROVE  PublishInv'
  BY <1>5, WriteStep, ClientStep
<1>6. CASE UNCHANGED vars
  BY <1>6 DEF vars, history, PublishInv, TypeOK, StartedInv, JsonInv, WritesJson
<1>. QED
  BY <1>1, <1>2, <1>3, <1>4, <1>5, <1>6 DEF Next

\* The invariant holds in every state.
THEOREM PublishInvariant == Spec => []PublishInv
BY InitInv, NextInv, PTL DEF Spec

\* The variables keep their types: no sleep and no attempt beyond its bound.
THEOREM TypeCorrect == Spec => []TypeOK
<1>1. PublishInv => TypeOK
  BY DEF PublishInv
<1>. QED
  BY <1>1, PublishInvariant, PTL

\* While the MQTT client sleeps after n failed attempts and lost connections, it
\* does for 2^n seconds or the configured maximum; it and the Kafka client give up
\* after as many of them as configured, no sooner: for any interval and any number
\* of attempts.
THEOREM RetriesInBounds == Spec => []RetriesBounded
<1>1. Init => SleepInv /\ HistoryInv
  BY DEF Init, SleepInv, HistoryInv
<1>2. PublishInv /\ SleepInv /\ HistoryInv => RetriesBounded
  <2>. SUFFICES ASSUME PublishInv, SleepInv, HistoryInv, active, method_class # "file"
                PROVE  LET n == failures + losses
                       IN /\ fatal <=> n >= settings.max_connect_attempts
                          /\ method_class = "mqtt" => n <= settings.max_connect_attempts
                          /\ link = "retry" =>
                                sleep_time = Doubled(n, settings.max_reconnect_interval)
    BY DEF RetriesBounded, Doubled
  <2>1. /\ settings.max_connect_attempts \in Nat /\ connection_attempt \in Nat
        /\ connection_attempt <= settings.max_connect_attempts
        /\ failures \in Nat /\ losses \in Nat
    BY SettingsFacts, BoundAssumption DEF PublishInv, TypeOK, StartedInv
  <2>2. fatal <=> failures + losses >= settings.max_connect_attempts
    BY <2>1 DEF HistoryInv
  <2>3. ASSUME link = "retry"
        PROVE  sleep_time = Doubled(failures + losses, settings.max_reconnect_interval)
    <3>1. method_class = "mqtt"
      BY <2>3 DEF PublishInv, StartedInv
    <3>2. failures + losses = connection_attempt - 1
      BY <2>3, <3>1 DEF HistoryInv
    <3>. QED
      BY <3>1, <3>2 DEF SleepInv
  <2>. QED
    BY <2>2, <2>3 DEF HistoryInv
<1>. QED
  BY <1>1, <1>2, SleepStep, HistoryStep, PublishInvariant, PTL DEF Spec

\* Only stop ends a run of an element that writes to a file, and it closes the
\* array.
LEMMA StopWritesArray ==
    ASSUME PublishInv, [Next]_vars, active, method_class = "file", ~active',
           settings.file_path = "file", settings.file_format = "json"
    PROVE  content'["file"] = JsonArray(accepted)
<1>1. StopFile
  BY DEF Next, vars, SetProperty, Start, StartFile, StartMqtt, StartKafka, Starting, Stop, StopMqtt,
         StopKafka, Callback, OnConnectSuccess, OnConnectFailure, Reconnect, ConnectionLost,
         PublishFile, PublishMqtt, PublishKafka, Streaming
<1>2. HoldsOpen(content["file"], accepted) /\ position["file"] > 0
      /\ content["file"] \in Seq(Token) /\ accepted \in Seq(Message) /\ "file" \in Target
  <2>1. position["file"] \in Nat
    BY DEF PublishInv, TypeOK, Target
  <2>. QED
    BY <2>1 DEF PublishInv, JsonInv, WritesJson, TypeOK, Target
<1>3. PutTwo("file", "]", "newline")
  BY <1>1, <1>2 DEF StopFile, FinalizeFile
<1>4. content'["file"] = content["file"] \o <<"]", "newline">>
  BY <1>2, <1>3, PutTwoFacts, SizeFacts DEF PublishInv
<1>. QED
  BY <1>2, <1>4, OpenClosed

\* When the element stops, a JSON file holds one array of all the messages
\* accepted since the start, in their order.
THEOREM ArrayWritten == Spec => FileIsArray
<1>1. PublishInv /\ [Next]_vars =>
        [(/\ active /\ method_class = "file" /\ ~active'
          /\ settings.file_path = "file" /\ settings.file_format = "json")
         => content'["file"] = JsonArray(accepted)]_vars
  BY StopWritesArray
<1>. QED
  BY <1>1, PublishInvariant, PTL DEF Spec, FileIsArray
=============================================================================
