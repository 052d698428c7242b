--------------------------- MODULE FastbootProofs ---------------------------
(***************************************************************************)
(* fastboot.c for every list of commands, every size of image, and any     *)
(* number of calls, announcements, late answers and unpluggings.           *)
(***************************************************************************)
EXTENDS Fastboot, SequenceTheorems, TLAPS

Announcements == {"INFO", "other"}
Finals == {"OKAY", "DATA", "FAIL", "short"}
Answers == Announcements \cup Finals

(* No answer has come yet, or one has, after the announcements. *)
Quiet(s) == \A i \in 1 .. Len(s) : s[i] \in Announcements

Complete(s) == /\ s # <<>> /\ s[Len(s)] \in Finals
               /\ \A i \in 1 .. (Len(s) - 1) : s[i] \in Announcements

(* What the two are at while no answer came too late, by what the host is  *)
(* at.                                                                     *)
BetweenCommands ==
  hpc \in {"idle", "write"} => dpc \in {"ready", "gone"} /\ answers = <<>>

AwaitingAnswer ==
  Reading => /\ dpc = "busy" => Quiet(answers)
             /\ dpc \in {"ready", "data"} => Complete(answers)
             /\ dpc = "gone" => answers = <<>> \/ Complete(answers)

(* Only a download is answered by waiting for data, and it is not answered *)
(* with success in another way.                                            *)
AwaitingCommand ==
  hpc = "read" =>
    /\ dpc = "busy" => doing = Head(todo)
    /\ dpc = "data" => /\ Head(todo) = "download" /\ staged = <<>>
                       /\ answers[Len(answers)] = "DATA"
    /\ Head(todo) = "download" =>
         /\ dpc = "ready" => answers[Len(answers)] \in {"FAIL", "short"}
         /\ dpc = "gone" => answers = <<>>

SendingImage ==
  hpc = "data" => /\ dpc \in {"data", "gone"} /\ answers = <<>>
                  /\ dpc = "data" => Len(staged) = offset

AwaitingStatus ==
  hpc = "status" => dpc # "data" /\ (dpc = "busy" => doing = "image")

ImageInOrder == \A i \in 1 .. Len(staged) : staged[i] = i

Talk == /\ BetweenCommands /\ AwaitingAnswer /\ AwaitingCommand
        /\ SendingImage /\ AwaitingStatus /\ ImageInOrder

Conversation == ~late => Talk

(* A download goes on while there is something to send, and to take. *)
Unfinished == /\ hpc = "data" => offset < Chunks
              /\ dpc = "data" => Len(staged) < Chunks

FInv == TypeOK /\ Unfinished /\ Conversation
-----------------------------------------------------------------------------
(* What an announcement, or the answer itself, makes of the answers. *)
LEMMA Announced ==
  ASSUME NEW s \in Seq(Answers), NEW a \in Announcements, Quiet(s)
  PROVE  Quiet(Append(s, a))
  BY DEF Quiet

LEMMA Concluded ==
  ASSUME NEW s \in Seq(Answers), NEW a \in Finals, Quiet(s)
  PROVE  /\ Complete(Append(s, a))
         /\ Append(s, a)[Len(Append(s, a))] = a
  <1>1. /\ Append(s, a) \in Seq(Answers) /\ Len(Append(s, a)) = Len(s) + 1
        /\ Append(s, a)[Len(s) + 1] = a
        /\ \A i \in 1 .. Len(s) : Append(s, a)[i] = s[i]
    BY DEF Answers
  <1>2. Append(s, a) # <<>>
    BY <1>1
  <1>. QED  BY <1>1, <1>2 DEF Quiet, Complete

(* What reading one answer leaves. *)
LEMMA AnnouncementRead ==
  ASSUME NEW s \in Seq(Answers), s # <<>>, Head(s) \in Announcements
  PROVE  /\ Quiet(s) => Quiet(Tail(s))
         /\ Complete(s) => Complete(Tail(s))
                             /\ Tail(s)[Len(Tail(s))] = s[Len(s)]
  <1>1. /\ Tail(s) \in Seq(Answers) /\ Len(Tail(s)) = Len(s) - 1
        /\ \A i \in 1 .. (Len(s) - 1) : Tail(s)[i] = s[i + 1]
        /\ Len(s) \in Nat \ {0} /\ Head(s) = s[1]
    OBVIOUS
  <1>2. ASSUME Quiet(s)
        PROVE  Quiet(Tail(s))
    BY <1>1, <1>2 DEF Quiet
  <1>3. ASSUME Complete(s)
        PROVE  Complete(Tail(s)) /\ Tail(s)[Len(Tail(s))] = s[Len(s)]
    <2>1. Len(s) # 1
      BY <1>1, <1>3 DEF Complete, Announcements, Finals
    <2>2. Len(Tail(s)) \in 1 .. (Len(s) - 1) /\ Tail(s) # <<>>
      <3>1. Len(Tail(s)) = Len(s) - 1 /\ Len(Tail(s)) > 0
        BY <1>1, <2>1
      <3>2. Len(<<>>) = 0 /\ Len(Tail(s)) # 0
        BY <1>1, <3>1
      <3>3. Tail(s) # <<>>
        BY <3>2
      <3>. QED  BY <1>1, <3>1, <3>3
    <2>3. Tail(s)[Len(Tail(s))] = s[Len(s)]
      BY <1>1, <2>2
    <2>4. \A i \in 1 .. (Len(Tail(s)) - 1) : Tail(s)[i] \in Announcements
      BY <1>1, <1>3, <2>2 DEF Complete
    <2>. QED  BY <1>3, <2>2, <2>3, <2>4 DEF Complete
  <1>. QED  BY <1>2, <1>3

(* Of two or more, the first is not the last. *)
LEMMA FirstOfMore ==
  ASSUME NEW n \in Nat \ {0}, n # 1
  PROVE  1 \in 1 .. (n - 1)
  OBVIOUS

LEMMA FinalRead ==
  ASSUME NEW s \in Seq(Answers), s # <<>>, Head(s) \in Finals
  PROVE  /\ ~Quiet(s)
         /\ Complete(s) => Tail(s) = <<>> /\ Head(s) = s[Len(s)]
  <1>1. Len(s) \in Nat \ {0} /\ Head(s) = s[1] /\ s[1] \notin Announcements
    BY DEF Announcements, Finals
  <1>2. ~Quiet(s)
    BY <1>1 DEF Quiet
  <1>3. ASSUME Complete(s)
        PROVE  Tail(s) = <<>> /\ Head(s) = s[Len(s)]
    <2>1. Len(s) = 1
      <3>1. SUFFICES ASSUME Len(s) # 1
                     PROVE  FALSE
        OBVIOUS
      <3>2. 1 \in 1 .. (Len(s) - 1)
        BY <1>1, <3>1, FirstOfMore
      <3>. QED  BY <1>1, <1>3, <3>2 DEF Complete
    <2>2. Tail(s) \in Seq(Answers) /\ Len(Tail(s)) = 0
      BY <2>1
    <2>. QED  BY <1>1, <2>1, <2>2, EmptySeq
  <1>. QED  BY <1>2, <1>3

(* The host moves on to the next command, or to the image. *)
LEMMA MovesOn ==
  ASSUME TypeOK, todo # <<>>, NextCommand
  PROVE  /\ todo' \in Seq(Commands) /\ hpc' \in {"idle", "write"}
         /\ hpc' # "idle" => todo' # <<>>
         /\ offset' = offset
  BY DEF TypeOK, NextCommand

LEMMA AnsweredCases ==
  ASSUME NEW ok \in BOOLEAN, TypeOK, Reading, Answered(ok)
  PROVE  /\ todo' \in Seq(Commands)
         /\ hpc' # "idle" => todo' # <<>>
         /\ \/ hpc' \in {"idle", "write"} /\ offset' = offset
            \/ /\ hpc' = "data" /\ offset' = 0
               /\ hpc = "read" /\ ok /\ Head(todo) = "download"
         /\ hpc = "read" /\ ok /\ Head(todo) = "download" => hpc' = "data"
  <1>1. todo # <<>>
    BY DEF TypeOK, Reading
  <1>2. CASE Head(todo) = "download" /\ hpc = "read" /\ ok
    BY <1>1, <1>2 DEF Answered, TypeOK
  <1>3. CASE ~(Head(todo) = "download" /\ hpc = "read" /\ ok)
    BY <1>1, <1>3, MovesOn DEF Answered
  <1>. QED  BY <1>2, <1>3
-----------------------------------------------------------------------------
(* What a transfer out does to the boot loader. *)
LEMMA TransferTyped ==
  ASSUME NEW command \in Commands \cup {"junk"}, NEW data \in 0 .. Chunks,
         TypeOK, Unfinished, TransferOut(command, data)
  PROVE  /\ dpc' \in {"ready", "busy", "data", "gone"}
         /\ doing' \in Commands \cup {"none", "image", "junk"}
         /\ staged' \in Seq(0 .. Chunks) /\ Len(staged') <= Chunks
         /\ dpc' = "data" => Len(staged') < Chunks
         /\ late' \in BOOLEAN
  <1>1. /\ staged \in Seq(0 .. Chunks) /\ Len(staged) <= Chunks
        /\ Chunks \in Nat \ {0}
    BY FastbootAssumption DEF TypeOK
  <1>2. CASE dpc = "data"
    <2>1. /\ staged' = Append(staged, data) /\ Len(staged) < Chunks
          /\ late' = late
      BY <1>2 DEF TransferOut, Unfinished
    <2>2. staged' \in Seq(0 .. Chunks) /\ Len(staged') = Len(staged) + 1
      BY <1>1, <2>1
    <2>3. /\ dpc' \in {"busy", "data"} /\ doing' \in {"image", doing}
          /\ dpc' = "data" => Len(staged') # Chunks
      BY <1>2 DEF TransferOut
    <2>. QED  BY <1>1, <2>1, <2>2, <2>3 DEF TypeOK
  <1>3. CASE dpc # "data"
    BY <1>1, <1>3 DEF TransferOut, TypeOK
  <1>. QED  BY <1>2, <1>3

(* The types, and that a download that goes on has something to send and to*)
(* take, are kept by every step.                                           *)
LEMMA TypeStep ==
  ASSUME TypeOK, Unfinished, [Next]_vars
  PROVE  TypeOK' /\ Unfinished'
  <1>. USE FastbootAssumption
  <1>0. <<>> \in Seq(0 .. Chunks) /\ <<>> \in Seq(Answers) /\ Len(<<>>) = 0
        /\ 0 < Chunks
    OBVIOUS
  <1>1. CASE DeviceBoot
    BY <1>1 DEF DeviceBoot, TypeOK, Unfinished, device
  <1>2. CASE WriteCommand
    <2>1. todo # <<>> /\ Head(todo) \in Commands /\ 0 \in 0 .. Chunks
      BY <1>2 DEF WriteCommand, TypeOK
    <2>2. TransferOut(Head(todo), 0)
      BY <1>2 DEF WriteCommand
    <2>. QED  BY <1>2, <2>1, <2>2, TransferTyped
              DEF WriteCommand, TypeOK, Unfinished, bounds
  <1>3. CASE ReadInfo
    <2>1. Tail(answers) \in Seq(Answers)
      BY <1>3 DEF ReadInfo, TypeOK, Answers, Announcements, Finals
    <2>. QED  BY <1>3, <2>1 DEF ReadInfo, TypeOK, Unfinished, host, device,
                 bounds, Answers, Announcements, Finals
  <1>4. CASE ReadAnswer
    <2>1. Tail(answers) \in Seq(Answers)
      BY <1>4 DEF ReadAnswer, TypeOK, Answers, Announcements, Finals
    <2>2. Answered(Head(answers) \in {"OKAY", "DATA"}) /\ Reading
      BY <1>4 DEF ReadAnswer
    <2>3. (Head(answers) \in {"OKAY", "DATA"}) \in BOOLEAN
      OBVIOUS
    <2>4. /\ todo' \in Seq(Commands) /\ (hpc' # "idle" => todo' # <<>>)
          /\ \/ hpc' \in {"idle", "write"} /\ offset' = offset
             \/ hpc' = "data" /\ offset' = 0
      BY <2>2, <2>3, AnsweredCases
    <2>. QED  BY <1>4, <2>1, <2>4 DEF ReadAnswer, TypeOK,
                 Unfinished, device, bounds, Answers, Announcements, Finals
  <1>5. CASE ReadTimeout
    <2>1. late' \in BOOLEAN /\ lates' \in Nat
      BY <1>5 DEF ReadTimeout, TypeOK
    <2>. QED  BY <1>5, <2>1, AnsweredCases DEF ReadTimeout, TypeOK, Unfinished,
                 device
  <1>6. CASE WriteData
    <2>1. offset + 1 \in 0 .. Chunks /\ todo # <<>>
      BY <1>6 DEF WriteData, TypeOK, Unfinished
    <2>2. TransferOut("junk", offset + 1)
      BY <1>6 DEF WriteData
    <2>3. /\ todo' \in Seq(Commands) /\ (hpc' # "idle" => todo' # <<>>)
          /\ hpc' \in {"idle", "write", "data", "status"}
          /\ offset' \in 0 .. Chunks /\ (hpc' = "data" => offset' < Chunks)
      BY <1>6, <2>1, MovesOn DEF WriteData, TypeOK
    <2>. QED  BY <1>6, <2>1, <2>2, <2>3, TransferTyped
              DEF WriteData, TypeOK, Unfinished, bounds
  <1>7. CASE Announces
    <2>1. PICK a \in Announcements : answers' = Append(answers, a)
      BY <1>7 DEF Announces, Announcements
    <2>2. answers' \in Seq(Answers)
      BY <2>1 DEF TypeOK, Answers, Announcements, Finals
    <2>. QED  BY <1>7, <2>2 DEF Announces, TypeOK, Unfinished, host, device,
                 Answers, Announcements, Finals
  <1>8. CASE Refuses
    <2>1. PICK a \in Finals : answers' = Append(answers, a)
      BY <1>8 DEF Refuses, Finals
    <2>2. answers' \in Seq(Answers)
      BY <2>1 DEF TypeOK, Answers, Announcements, Finals
    <2>. QED  BY <1>8, <2>2 DEF Refuses, TypeOK, Unfinished, host, bounds,
                 Answers, Announcements, Finals
  <1>9. CASE CarriesOut
    <2>1. PICK a \in Finals : answers' = Append(answers, a)
      BY <1>9 DEF CarriesOut, Finals
    <2>2. answers' \in Seq(Answers)
      BY <2>1 DEF TypeOK, Answers, Announcements, Finals
    <2>3. /\ dpc' \in {"ready", "data", "gone"}
          /\ dpc' = "data" => staged' = <<>>
          /\ staged' \in {<<>>, staged}
          /\ booted' \subseteq booted \cup {staged}
      BY <1>9 DEF CarriesOut
    <2>4. /\ staged' \in Seq(0 .. Chunks) /\ Len(staged') <= Chunks
          /\ dpc' = "data" => Len(staged') < Chunks
          /\ booted' \subseteq Seq(0 .. Chunks)
      <3>1. /\ staged \in Seq(0 .. Chunks) /\ Len(staged) <= Chunks
            /\ booted \subseteq Seq(0 .. Chunks)
        BY DEF TypeOK
      <3>2. CASE staged' = <<>>
        BY <1>0, <2>3, <3>1, <3>2
      <3>3. CASE staged' # <<>>
        BY <2>3, <3>1, <3>3
      <3>. QED  BY <3>2, <3>3
    <2>. QED  BY <1>9, <2>2, <2>3, <2>4 DEF CarriesOut, TypeOK, Unfinished,
                 host, bounds, Answers, Announcements, Finals
  <1>10. CASE Unplugged
    BY <1>0, <1>10 DEF Unplugged, TypeOK, Unfinished, host, bounds,
       Answers, Announcements, Finals
  <1>11. CASE Replugged
    <2>1. /\ dpc' = "ready" /\ doing' = "none" /\ staged' = <<>>
          /\ answers' = <<>> /\ late' = FALSE
          /\ UNCHANGED <<todo, hpc, offset, booted, boots, infos, lates>>
      BY <1>11 DEF Replugged, host, bounds
    <2>2. TypeOK'
      <3>1. staged' \in Seq(0 .. Chunks) /\ Len(staged') <= Chunks
        BY <1>0, <2>1
      <3>. QED  BY <1>0, <2>1, <3>1 DEF TypeOK, Answers, Announcements, Finals
    <2>3. Unfinished'
      BY <2>1 DEF Unfinished
    <2>. QED  BY <2>2, <2>3
  <1>12. CASE UNCHANGED vars
    BY <1>12 DEF vars, TypeOK, Unfinished
  <1>. QED  BY <1>1, <1>2, <1>3, <1>4, <1>5, <1>6, <1>7, <1>8, <1>9, <1>10,
               <1>11, <1>12 DEF Next, Host, Loader
-----------------------------------------------------------------------------
(* Being late is forgotten on a new connection only. *)
LEMMA LateStays ==
  ASSUME [Next]_vars, ~late', ~Replugged
  PROVE  ~late
  <1>1. CASE DeviceBoot \/ ReadInfo \/ ReadAnswer \/ Announces \/ Refuses
             \/ CarriesOut \/ Unplugged \/ UNCHANGED vars
    BY <1>1 DEF DeviceBoot, ReadInfo, ReadAnswer, Announces, Refuses,
                CarriesOut, Unplugged, vars
  <1>2. CASE WriteCommand
    BY <1>2 DEF WriteCommand, TransferOut
  <1>3. CASE ReadTimeout
    BY <1>3 DEF ReadTimeout
  <1>4. CASE WriteData
    BY <1>4 DEF WriteData, TransferOut
  <1>. QED  BY <1>1, <1>2, <1>3, <1>4 DEF Next, Host, Loader

(* While no answer is late: the host's steps ... *)
LEMMA WriteCommandTalks ==
  ASSUME TypeOK, Talk, WriteCommand, ~late'
  PROVE  Talk'
  <1>1. /\ hpc = "write" /\ hpc' = "read" /\ TransferOut(Head(todo), 0)
        /\ UNCHANGED <<todo, offset, answers>>
    BY DEF WriteCommand
  <1>2. dpc \in {"ready", "gone"} /\ answers = <<>>
    BY <1>1 DEF Talk, BetweenCommands
  <1>3. /\ staged' = staged
        /\ \/ dpc' = "busy" /\ doing' = Head(todo)
           \/ dpc' = "gone"
    BY <1>1, <1>2 DEF TransferOut
  <1>4. Quiet(<<>>)
    BY DEF Quiet
  <1>. QED  BY <1>1, <1>2, <1>3, <1>4
            DEF Talk, BetweenCommands, AwaitingAnswer, AwaitingCommand,
                SendingImage, AwaitingStatus, ImageInOrder, Reading

LEMMA ReadInfoTalks ==
  ASSUME TypeOK, Talk, ReadInfo
  PROVE  Talk'
  <1>1. /\ Reading /\ answers # <<>> /\ Head(answers) \in Announcements
        /\ answers' = Tail(answers) /\ answers \in Seq(Answers)
        /\ UNCHANGED <<todo, hpc, offset, dpc, doing, staged>>
    BY DEF ReadInfo, TypeOK, host, device, Answers, Announcements, Finals
  <1>2. /\ Quiet(answers) => Quiet(answers')
        /\ Complete(answers) =>
             /\ Complete(answers')
             /\ answers'[Len(answers')] = answers[Len(answers)]
    BY <1>1, AnnouncementRead
  <1>3. AwaitingAnswer'
    BY <1>1, <1>2 DEF Talk, AwaitingAnswer, Reading
  <1>4. AwaitingCommand'
    BY <1>1, <1>2 DEF Talk, AwaitingAnswer, AwaitingCommand, Reading
  <1>. QED  BY <1>1, <1>3, <1>4 DEF Talk, BetweenCommands, SendingImage,
               AwaitingStatus, ImageInOrder, Reading

LEMMA ReadAnswerTalks ==
  ASSUME TypeOK, Talk, ReadAnswer
  PROVE  Talk'
  <1>. DEFINE ok == Head(answers) \in {"OKAY", "DATA"}
  <1>1. /\ Reading /\ answers # <<>> /\ Head(answers) \in Finals
        /\ answers' = Tail(answers) /\ answers \in Seq(Answers)
        /\ Answered(ok)
        /\ UNCHANGED <<dpc, doing, staged>>
    BY DEF ReadAnswer, TypeOK, device, Answers, Announcements, Finals
  <1>2. ~Quiet(answers)
    BY <1>1, FinalRead
  <1>3. dpc \in {"ready", "data", "gone"} /\ Complete(answers)
    BY <1>1, <1>2 DEF Talk, AwaitingAnswer, TypeOK
  <1>4. answers' = <<>> /\ Head(answers) = answers[Len(answers)]
    BY <1>1, <1>3, FinalRead
  <1>5. ok \in BOOLEAN
    OBVIOUS
  <1>6. /\ \/ hpc' \in {"idle", "write"}
           \/ /\ hpc' = "data" /\ offset' = 0
              /\ hpc = "read" /\ ok /\ Head(todo) = "download"
        /\ hpc = "read" /\ ok /\ Head(todo) = "download" => hpc' = "data"
    BY <1>1, <1>5, AnsweredCases
  <1>7. CASE hpc' = "data"
    <2>1. dpc = "data" /\ staged = <<>>
      BY <1>1, <1>3, <1>4, <1>6, <1>7 DEF Talk, AwaitingCommand
    <2>. QED  BY <1>1, <1>4, <1>6, <1>7, <2>1 DEF Talk, BetweenCommands,
                 AwaitingAnswer, AwaitingCommand, SendingImage,
                 AwaitingStatus, ImageInOrder, Reading
  <1>8. CASE hpc' # "data"
    <2>1. dpc # "data"
      BY <1>1, <1>4, <1>6, <1>8
         DEF Talk, AwaitingCommand, AwaitingStatus, Reading
    <2>. QED  BY <1>1, <1>3, <1>4, <1>6, <1>8, <2>1 DEF Talk,
                 BetweenCommands, AwaitingAnswer, AwaitingCommand,
                 SendingImage, AwaitingStatus, ImageInOrder, Reading
  <1>. QED  BY <1>7, <1>8

LEMMA ReadTimeoutTalks ==
  ASSUME TypeOK, Talk, ReadTimeout, ~late'
  PROVE  Talk'
  <1>1. /\ Reading /\ answers = <<>> /\ answers' = answers
        /\ dpc = "gone" /\ Answered(FALSE) /\ UNCHANGED <<dpc, doing, staged>>
    BY DEF ReadTimeout, device
  <1>2. hpc' \in {"idle", "write"}
    BY <1>1, AnsweredCases
  <1>. QED  BY <1>1, <1>2 DEF Talk, BetweenCommands, AwaitingAnswer,
               AwaitingCommand, SendingImage, AwaitingStatus, ImageInOrder,
               Reading

LEMMA WriteDataTalks ==
  ASSUME TypeOK, Unfinished, Talk, WriteData, ~late'
  PROVE  Talk'
  <1>1. /\ hpc = "data" /\ TransferOut("junk", offset + 1)
        /\ answers' = answers /\ answers = <<>>
        /\ dpc \in {"data", "gone"} /\ todo # <<>>
    BY DEF WriteData, Talk, SendingImage, TypeOK
  <1>2. CASE dpc = "gone"
    <2>1. /\ UNCHANGED <<dpc, doing, staged>> /\ NextCommand
      BY <1>1, <1>2 DEF WriteData, TransferOut
    <2>2. hpc' \in {"idle", "write"}
      BY <1>1, <2>1, MovesOn
    <2>. QED  BY <1>1, <1>2, <2>1, <2>2 DEF Talk, BetweenCommands,
                 AwaitingAnswer, AwaitingCommand, SendingImage,
                 AwaitingStatus, ImageInOrder, Reading
  <1>3. CASE dpc = "data"
    <2>1. /\ staged' = Append(staged, offset + 1) /\ offset' = offset + 1
          /\ hpc' = IF offset' = Chunks THEN "status" ELSE "data"
          /\ IF Len(staged') = Chunks THEN dpc' = "busy" /\ doing' = "image"
                                      ELSE UNCHANGED <<dpc, doing>>
      BY <1>1, <1>3 DEF WriteData, TransferOut
    <2>2. staged \in Seq(0 .. Chunks) /\ offset \in Nat /\ Len(staged) = offset
      BY <1>1, <1>3, FastbootAssumption DEF TypeOK, Talk, SendingImage
    <2>3. /\ Len(staged') = Len(staged) + 1 /\ Len(staged') = offset'
          /\ staged'[Len(staged) + 1] = Len(staged) + 1
          /\ \A i \in 1 .. Len(staged) : staged'[i] = staged[i]
      <3>1. offset + 1 \in 0 .. Chunks
        BY <1>1, FastbootAssumption DEF TypeOK, Unfinished
      <3>. QED  BY <2>1, <2>2, <3>1
    <2>4. ImageInOrder'
      BY <2>2, <2>3 DEF Talk, ImageInOrder
    <2>5. CASE offset' = Chunks
      <3>1. /\ hpc' = "status" /\ dpc' = "busy" /\ doing' = "image"
            /\ Quiet(answers')
        BY <1>1, <2>1, <2>3, <2>5 DEF Quiet
      <3>. QED  BY <2>4, <3>1 DEF Talk, BetweenCommands, AwaitingAnswer,
                   AwaitingCommand, SendingImage, AwaitingStatus, Reading
    <2>6. CASE offset' # Chunks
      <3>1. hpc' = "data" /\ dpc' = "data" /\ Len(staged') = offset'
        BY <1>3, <2>1, <2>3, <2>6
      <3>. QED  BY <1>1, <2>4, <3>1 DEF Talk, BetweenCommands,
                   AwaitingAnswer, AwaitingCommand, SendingImage,
                   AwaitingStatus, Reading
    <2>. QED  BY <2>5, <2>6
  <1>. QED  BY <1>1, <1>2, <1>3

(* ... and the boot loader's.  It is busy only with what the host waits for.*)
LEMMA BusyWhileReading ==
  ASSUME TypeOK, Talk, dpc = "busy"
  PROVE  /\ Reading /\ Quiet(answers)
         /\ hpc = "read" => doing = Head(todo)
         /\ hpc = "status" => doing = "image"
         /\ answers \in Seq(Answers)
  <1>1. Reading
    BY DEF TypeOK, Talk, BetweenCommands, SendingImage, Reading
  <1>. QED  BY <1>1 DEF TypeOK, Talk, AwaitingAnswer, AwaitingCommand,
               AwaitingStatus, Answers, Announcements, Finals

LEMMA AnnouncesTalks ==
  ASSUME TypeOK, Talk, Announces
  PROVE  Talk'
  <1>1. dpc = "busy" /\ UNCHANGED <<todo, hpc, offset, dpc, doing, staged>>
    BY DEF Announces, host, device
  <1>2. PICK a \in Announcements : answers' = Append(answers, a)
    BY DEF Announces, Announcements
  <1>3. Reading /\ Quiet(answers) /\ answers \in Seq(Answers)
    BY <1>1, BusyWhileReading
  <1>4. Quiet(answers')
    BY <1>2, <1>3, Announced
  <1>. QED  BY <1>1, <1>3, <1>4 DEF Talk, BetweenCommands, AwaitingAnswer,
               AwaitingCommand, SendingImage, AwaitingStatus, ImageInOrder,
               Reading

LEMMA RefusesTalks ==
  ASSUME TypeOK, Talk, Refuses
  PROVE  Talk'
  <1>1. /\ dpc = "busy" /\ dpc' = "ready"
        /\ UNCHANGED <<todo, hpc, offset, staged>>
    BY DEF Refuses, host
  <1>2. PICK a \in {"FAIL", "short"} : answers' = Append(answers, a)
    BY DEF Refuses
  <1>3. Reading /\ Quiet(answers) /\ answers \in Seq(Answers) /\ a \in Finals
    BY <1>1, BusyWhileReading DEF Finals
  <1>4. Complete(answers') /\ answers'[Len(answers')] = a
    BY <1>2, <1>3, Concluded
  <1>. QED  BY <1>1, <1>2, <1>3, <1>4 DEF Talk, BetweenCommands,
               AwaitingAnswer, AwaitingCommand, SendingImage, AwaitingStatus,
               ImageInOrder, Reading

LEMMA CarriesOutTalks ==
  ASSUME TypeOK, Talk, CarriesOut
  PROVE  Talk'
  <1>. DEFINE a == IF doing = "download" THEN "DATA" ELSE "OKAY"
  <1>1. dpc = "busy" /\ UNCHANGED <<todo, hpc, offset>>
        /\ answers' = Append(answers, a) /\ a \in Finals
    BY DEF CarriesOut, host, Finals
  <1>2. /\ Reading /\ Quiet(answers) /\ answers \in Seq(Answers)
        /\ hpc = "read" => doing = Head(todo)
        /\ hpc = "status" => doing = "image"
    BY <1>1, BusyWhileReading
  <1>3. Complete(answers') /\ answers'[Len(answers')] = a
    BY <1>1, <1>2, Concluded
  <1>4. CASE doing = "download"
    <2>1. dpc' = "data" /\ staged' = <<>> /\ a = "DATA" /\ hpc = "read"
      BY <1>2, <1>4 DEF CarriesOut, Reading
    <2>. QED  BY <1>1, <1>2, <1>3, <1>4, <2>1 DEF Talk, BetweenCommands,
                 AwaitingAnswer, AwaitingCommand, SendingImage,
                 AwaitingStatus, ImageInOrder, Reading
  <1>5. CASE doing # "download"
    <2>1. dpc' \in {"ready", "gone"} /\ staged' = staged
      BY <1>5 DEF CarriesOut
    <2>2. hpc = "read" => Head(todo) # "download"
      BY <1>2, <1>5
    <2>. QED  BY <1>1, <1>2, <1>3, <2>1, <2>2 DEF Talk, BetweenCommands,
                 AwaitingAnswer, AwaitingCommand, SendingImage,
                 AwaitingStatus, ImageInOrder, Reading
  <1>. QED  BY <1>4, <1>5

LEMMA UnpluggedTalks ==
  ASSUME TypeOK, Talk, Unplugged
  PROVE  Talk'
  <1>1. /\ dpc' = "gone" /\ staged' = <<>> /\ answers' = <<>>
        /\ UNCHANGED <<todo, hpc, offset>>
    BY DEF Unplugged, host
  <1>. QED  BY <1>1 DEF Talk, BetweenCommands, AwaitingAnswer,
               AwaitingCommand, SendingImage, AwaitingStatus, ImageInOrder,
               Reading

LEMMA RepluggedTalks ==
  ASSUME Replugged
  PROVE  Talk'
  <1>1. /\ hpc' = "idle" /\ dpc' = "ready" /\ staged' = <<>> /\ answers' = <<>>
    BY DEF Replugged, host
  <1>. QED  BY <1>1 DEF Talk, BetweenCommands, AwaitingAnswer,
               AwaitingCommand, SendingImage, AwaitingStatus, ImageInOrder,
               Reading

LEMMA ConversationStep ==
  ASSUME FInv, [Next]_vars
  PROVE  Conversation'
  <1>1. SUFFICES ASSUME ~late', ~Replugged
                 PROVE  Talk'
    BY RepluggedTalks DEF Conversation
  <1>2. TypeOK /\ Unfinished /\ Talk
    BY <1>1, LateStays DEF FInv, Conversation
  <1>3. CASE DeviceBoot
    <2>1. /\ hpc = "idle" /\ hpc' = "write"
          /\ UNCHANGED <<dpc, doing, staged, answers>>
      BY <1>3 DEF DeviceBoot, device
    <2>. QED  BY <1>2, <2>1 DEF Talk, BetweenCommands, AwaitingAnswer,
                 AwaitingCommand, SendingImage, AwaitingStatus,
                 ImageInOrder, Reading
  <1>4. CASE Host
    BY <1>1, <1>2, <1>4, WriteCommandTalks, ReadInfoTalks, ReadAnswerTalks,
       ReadTimeoutTalks, WriteDataTalks DEF Host
  <1>5. CASE Announces \/ Loader \/ Unplugged
    BY <1>2, <1>5, AnnouncesTalks, RefusesTalks, CarriesOutTalks,
       UnpluggedTalks DEF Loader
  <1>6. CASE UNCHANGED vars
    BY <1>2, <1>6 DEF vars, Talk, BetweenCommands, AwaitingAnswer,
       AwaitingCommand, SendingImage, AwaitingStatus, ImageInOrder, Reading
  <1>. QED  BY <1>1, <1>3, <1>4, <1>5, <1>6 DEF Next
-----------------------------------------------------------------------------
(* The invariant holds: the types, and that while no answer came too late  *)
(* what is in flight is what the host waits for.                           *)
THEOREM Invariance == Spec => []FInv
  <1>1. Init => FInv
    <2>1. ASSUME Init
          PROVE  FInv
      <3>1. <<>> \in Seq(Commands) /\ <<>> \in Seq(0 .. Chunks)
            /\ <<>> \in Seq({"OKAY", "DATA", "FAIL", "short", "INFO", "other"})
            /\ Len(<<>>) = 0 /\ 0 \in 0 .. Chunks
        BY FastbootAssumption
      <3>2. TypeOK
        <4>1. /\ todo \in Seq(Commands) /\ staged \in Seq(0 .. Chunks)
              /\ answers \in Seq({"OKAY", "DATA", "FAIL", "short", "INFO", "other"})
          BY <2>1, <3>1 DEF Init
        <4>2. Len(staged) <= Chunks /\ offset \in 0 .. Chunks
          BY <2>1, <3>1, FastbootAssumption DEF Init
        <4>. QED  BY <2>1, <4>1, <4>2 DEF Init, TypeOK
      <3>3. Unfinished /\ Talk
        BY <2>1 DEF Init, Unfinished, Talk, BetweenCommands, AwaitingAnswer,
           AwaitingCommand, SendingImage, AwaitingStatus, ImageInOrder,
           Reading
      <3>. QED  BY <3>2, <3>3 DEF FInv, Conversation
    <2>. QED  BY <2>1
  <1>2. FInv /\ [Next]_vars => FInv'
    BY TypeStep, ConversationStep DEF FInv
  <1>. QED  BY <1>1, <1>2, PTL DEF Spec

(* device_boot and the boot loader stay in step, for every list of commands*)
(* and size of image: no command is written while an earlier answer is     *)
(* still to come or to be read, unless one came too late.                  *)
THEOREM StaysInStep == Spec => []InStep
  <1>1. FInv => InStep
    BY DEF FInv, Conversation, Talk, BetweenCommands, InStep
  <1>. QED  BY <1>1, Invariance, PTL

(* What a step boots or flashes is the image, whole and in order. *)
THEOREM OnlyTheImageBoots == Spec => BootsWhole
  <1>1. ASSUME FInv, Next, booted' # booted, ~late
        PROVE  booted' \subseteq booted \cup {[i \in 1 .. Chunks |-> i]}
    <2>1. CarriesOut
      BY <1>1 DEF Next, DeviceBoot, Host, WriteCommand, ReadInfo, ReadAnswer,
         ReadTimeout, WriteData, Announces, Loader, Refuses, Unplugged,
         Replugged, device
    <2>2. booted' = booted \cup {staged} /\ Len(staged) = Chunks
      BY <1>1, <2>1 DEF CarriesOut
    <2>3. /\ staged \in Seq(0 .. Chunks)
          /\ \A i \in 1 .. Len(staged) : staged[i] = i
      BY <1>1 DEF FInv, TypeOK, Conversation, Talk, ImageInOrder
    <2>4. staged = [i \in 1 .. Chunks |-> i]
      BY <2>2, <2>3
    <2>. QED  BY <2>2, <2>4
  <1>2. FInv /\ [Next]_vars =>
          [booted' # booted /\ ~late =>
             booted' \subseteq booted \cup {[i \in 1 .. Chunks |-> i]}]_vars
    BY <1>1
  <1>. QED  BY <1>2, Invariance, PTL DEF Spec, BootsWhole
-----------------------------------------------------------------------------
(* How far the host is from the end of a command. *)
Stage == CASE hpc = "write"  -> Chunks + 3
           [] hpc = "read"   -> Chunks + 2
           [] hpc = "data"   -> Chunks + 1 - offset
           [] hpc = "status" -> 1
           [] hpc = "idle"   -> 0

(* A command less, or the same command nearer to its end, or an answer less*)
(* to read.                                                                *)
Nearer == \/ Len(todo') < Len(todo)
          \/ todo' = todo /\ Stage' < Stage
          \/ todo' = todo /\ Stage' = Stage /\ Len(answers') < Len(answers)

(* No step of the host is for nothing, nobody else sets it back, and only a*)
(* transfer of its own gives the boot loader something to answer: once, but*)
(* for the announcements.                                                  *)
BootGoesOn ==
  [][/\ Host => Nearer
     /\ hpc # "idle" /\ ~Host => UNCHANGED host
     /\ Len(answers') > Len(answers) =>
          dpc = "busy" /\ (dpc' # "busy" \/ infos' > infos)
     /\ dpc # "busy" /\ dpc' = "busy" => Host]_vars

LEMMA CommandEnds ==
  ASSUME TypeOK, hpc # "idle", NextCommand
  PROVE  Nearer
  <1>1. todo \in Seq(Commands) /\ todo # <<>> /\ todo' = Tail(todo)
    BY DEF TypeOK, NextCommand
  <1>2. Len(Tail(todo)) < Len(todo)
    BY <1>1
  <1>. QED  BY <1>1, <1>2 DEF Nearer

(* A read that has returned ends the command, or goes on to the image.     *)
LEMMA ReadEnds ==
  ASSUME NEW ok \in BOOLEAN, TypeOK, Reading, Answered(ok)
  PROVE  Nearer
  <1>1. CASE Head(todo) = "download" /\ hpc = "read" /\ ok
    <2>1. hpc' = "data" /\ offset' = 0 /\ todo' = todo
      BY <1>1 DEF Answered
    <2>2. Stage' = Chunks + 1 - 0 /\ Stage = Chunks + 2
      BY <1>1, <2>1 DEF Stage
    <2>3. Stage' < Stage
      BY <2>2, FastbootAssumption
    <2>. QED  BY <2>1, <2>3 DEF Nearer
  <1>2. CASE ~(Head(todo) = "download" /\ hpc = "read" /\ ok)
    BY <1>2, CommandEnds DEF Answered, Reading
  <1>. QED  BY <1>1, <1>2

(* Each step of the host. *)
LEMMA HostNearer ==
  ASSUME TypeOK, Unfinished, Host
  PROVE  Nearer
  <1>. USE FastbootAssumption
  <1>1. CASE WriteCommand
    <2>1. todo' = todo /\ Stage = Chunks + 3 /\ Stage' = Chunks + 2
      BY <1>1 DEF WriteCommand, Stage
    <2>2. Stage' < Stage
      BY <2>1
    <2>. QED  BY <2>1, <2>2 DEF Nearer
  <1>2. CASE ReadInfo
    <2>1. answers # <<>> /\ answers' = Tail(answers)
          /\ UNCHANGED <<todo, hpc, offset>>
      BY <1>2 DEF ReadInfo, host
    <2>2. Len(answers') < Len(answers)
      BY <2>1 DEF TypeOK
    <2>3. Stage' = Stage
      BY <2>1 DEF Stage
    <2>. QED  BY <2>1, <2>2, <2>3 DEF Nearer
  <1>3. CASE ReadAnswer
    <2>1. Answered(Head(answers) \in {"OKAY", "DATA"}) /\ Reading
      BY <1>3 DEF ReadAnswer
    <2>2. (Head(answers) \in {"OKAY", "DATA"}) \in BOOLEAN
      OBVIOUS
    <2>. QED  BY <2>1, <2>2, ReadEnds
  <1>4. CASE ReadTimeout
    BY <1>4, ReadEnds DEF ReadTimeout
  <1>5. CASE WriteData
    <2>1. CASE dpc \in {"busy", "gone"}
      BY <1>5, <2>1, CommandEnds DEF WriteData
    <2>2. CASE dpc \notin {"busy", "gone"}
      <3>1. /\ todo' = todo /\ offset' = offset + 1 /\ hpc = "data"
            /\ hpc' = IF offset' = Chunks THEN "status" ELSE "data"
            /\ offset \in Nat /\ offset < Chunks
        BY <1>5, <2>2 DEF WriteData, TypeOK, Unfinished
      <3>2. Stage = Chunks + 1 - offset
        BY <3>1 DEF Stage
      <3>3. CASE offset' = Chunks
        <4>1. Stage' = 1
          BY <3>1, <3>3 DEF Stage
        <4>. QED  BY <3>1, <3>2, <4>1 DEF Nearer
      <3>4. CASE offset' # Chunks
        <4>1. Stage' = Chunks + 1 - offset'
          BY <3>1, <3>4 DEF Stage
        <4>. QED  BY <3>1, <3>2, <4>1 DEF Nearer
      <3>. QED  BY <3>3, <3>4
    <2>. QED  BY <2>1, <2>2
  <1>. QED  BY <1>1, <1>2, <1>3, <1>4, <1>5 DEF Host

(* device_boot is not held up, whatever the boot loader does, for every    *)
(* list of commands and size of image: each step of the host brings it     *)
(* nearer to its end, and only its transfers give the loader something to  *)
(* answer.                                                                 *)
THEOREM NothingIsForNothing == Spec => BootGoesOn
  <1>1. ASSUME FInv, Next
        PROVE  /\ Host => Nearer
               /\ hpc # "idle" /\ ~Host => UNCHANGED host
    <2>1. Host => Nearer
      BY <1>1, HostNearer DEF FInv
    <2>2. hpc # "idle" /\ ~Host => UNCHANGED host
      BY <1>1 DEF Next, DeviceBoot, Announces, Loader, Refuses, CarriesOut,
                  Unplugged, Replugged, host
    <2>. QED  BY <2>1, <2>2
  <1>2. ASSUME FInv, Next, Len(answers') > Len(answers)
        PROVE  dpc = "busy" /\ (dpc' # "busy" \/ infos' > infos)
    <2>1. /\ answers \in Seq(Answers) /\ infos \in Nat
          /\ Len(answers) \in Nat /\ Len(<<>>) = 0
      BY <1>2 DEF FInv, TypeOK, Answers, Announcements, Finals
    <2>2. answers' # answers /\ answers' # <<>>
          /\ (answers # <<>> => answers' # Tail(answers))
      BY <1>2, <2>1
    <2>3. Announces \/ Loader
      BY <1>2, <2>2 DEF Next, DeviceBoot, Host, WriteCommand, ReadInfo,
         ReadAnswer, ReadTimeout, WriteData, Unplugged, Replugged
    <2>4. CASE Announces
      BY <2>1, <2>4 DEF Announces
    <2>5. CASE Refuses
      BY <2>5 DEF Refuses
    <2>6. CASE CarriesOut
      BY <2>6 DEF CarriesOut
    <2>. QED  BY <2>3, <2>4, <2>5, <2>6 DEF Loader
  <1>3. ASSUME Next, dpc # "busy", dpc' = "busy"
        PROVE  Host
    BY <1>3 DEF Next, DeviceBoot, device, Announces, Loader, Refuses,
                CarriesOut, Unplugged, Replugged
  <1>4. FInv /\ [Next]_vars =>
          [/\ Host => Nearer
           /\ hpc # "idle" /\ ~Host => UNCHANGED host
           /\ Len(answers') > Len(answers) =>
                dpc = "busy" /\ (dpc' # "busy" \/ infos' > infos)
           /\ dpc # "busy" /\ dpc' = "busy" => Host]_vars
    BY <1>1, <1>2, <1>3
  <1>. QED  BY <1>4, Invariance, PTL DEF Spec, BootGoesOn
=============================================================================
