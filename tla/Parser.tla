------------------------------- MODULE Parser -------------------------------
(***************************************************************************)
(* parse() and the loops around it, on a stream of commands that the       *)
(* network cuts anywhere: handle_read() and threadAnothSrv() of the        *)
(* server, which replace their buffer by what comes next, and              *)
(* s_online_recv() of the client, which keeps what it has not parsed.  The *)
(* characters of a tag name, and of an argument, are one letter here:      *)
(* where inside it a cut falls makes no difference to parse().             *)
(***************************************************************************)
EXTENDS Commands

CONSTANTS Sent,      \* the commands that may come, for each program
          MaxSent,   \* bound: how many commands the stream has
          BufferSize \* the letters each program's buffer has room for

VARIABLES program,   \* which program reads: "server" or "client"
          cmds,      \* the commands that were sent
          stream,    \* their characters
          first, last, \* the characters of the stream that are in the buffer
          src,       \* the first of them that is not parsed yet
          found,     \* the commands parse() has returned
          fragment   \* parse() has returned 0

vars == <<program, cmds, stream, first, last, src, found, fragment>>

\* sprintf() of a number, and myatoi().
Digit == <<"0", "1", "2", "3", "4", "5", "6", "7", "8", "9">>
Decimal(n) == LET f[k \in 0 .. n] == (IF k < 10 THEN <<>> ELSE f[k \div 10]) \o <<Digit[(k % 10) + 1]>>
              IN  f[n]
ValueOf(d) == CHOOSE v \in 0 .. 9 : Digit[v + 1] = d

\* Mutant: the digits are added up from the right.
AtoiBackwards(s) == LET f[k \in 0 .. Len(s)] ==
                          IF k = 0 THEN 0 ELSE 10 * f[k - 1] + ValueOf(s[Len(s) + 1 - k])
                    IN  f[Len(s)]

Atoi(s) == LET f[k \in 0 .. Len(s)] == IF k = 0 THEN 0 ELSE 10 * f[k - 1] + ValueOf(s[k])
           IN  f[Len(s)]

\* The texts of a command, None for an empty argument.
TagText(cmd) == IF cmd.tag # "filedata" THEN <<cmd.tag>>
                ELSE <<"filedata", ",", cmd.file, ",">> \o Decimal(cmd.seg)
Spelled(cmd) == <<"<">> \o TagText(cmd) \o <<">">> \o
  (IF "arg" \notin DOMAIN cmd THEN <<>>
   ELSE (IF cmd.arg = None THEN <<>> ELSE <<cmd.arg>>) \o <<"<", "\\", ">">>)

\* The characters of s[1] \o ... \o s[n].
Text(s) == LET f[n \in 0 .. Len(s)] == IF n = 0 THEN <<>> ELSE f[n - 1] \o Spelled(s[n])
           IN  f[Len(s)]

Least(S) == CHOOSE k \in S : \A l \in S : k <= l

\* The places where the three steps of parse() stop reading.
Open       == {k \in src .. last : stream[k] = "<"}
CloseOf(k) == {l \in k + 1 .. last : stream[l] = ">"}
EndOf(l)   == {m \in l + 1 .. last - 2 : /\ stream[m] = "<" /\ stream[m + 1] = "\\"
                                         /\ stream[m + 2] = ">"}
-----------------------------------------------------------------------------
\* Nothing is read yet.
Init ==
  /\ program \in {"server", "client"}
  /\ cmds \in UNION {[1 .. n -> Sent[program]] : n \in 1 .. MaxSent}
  /\ stream = Text(cmds)
  /\ first = 1 /\ last = 0 /\ src = 1 /\ found = <<>> /\ fragment = TRUE

\* The server's next buffer begins where the last one ended.
HandleRead ==
  /\ program = "server" /\ fragment /\ fragment' = FALSE
  /\ first' = last + 1 /\ src' = last + 1 /\ found' = <<>>
  /\ last' \in {k \in last + 1 .. last + BufferSize[program] : k <= Len(stream)}
  /\ UNCHANGED <<program, cmds, stream>>

\* Mutant: the rest of the buffer is dropped.
RecvAnew ==
  /\ program = "client" /\ fragment /\ fragment' = FALSE
  /\ first' = last + 1 /\ src' = last + 1
  /\ last' \in {k \in last + 1 .. last + BufferSize[program] : k <= Len(stream)}
  /\ UNCHANGED <<program, cmds, stream, found>>

\* Mutant: the rest is not moved to the front.
RecvBehind ==
  /\ program = "client" /\ fragment /\ fragment' = FALSE
  /\ last' \in {k \in last + 1 .. first + BufferSize[program] - 1 : k <= Len(stream)}
  /\ UNCHANGED <<program, cmds, stream, first, src, found>>

\* adjust_buffer() and recv(): what is not parsed moves to the front of the
\* client's buffer, and what comes next follows it, as far as there is room.
Recv ==
  /\ program = "client" /\ fragment /\ fragment' = FALSE
  /\ first' = src
  /\ last' \in {k \in last + 1 .. src + BufferSize[program] - 1 : k <= Len(stream)}
  /\ UNCHANGED <<program, cmds, stream, src, found>>

\* The words that have no argument, for parse() of the client.
ClientTagOnly == {"login-good", "login-badU", "login-badP", "user-online", "user-offline",
                  "logout-confirmed"}

\* Step 1 of parse() finds a tag.
HasTag == Open # {} /\ CloseOf(Least(Open)) # {}
TagEnd == Least(CloseOf(Least(Open)))
TheTag == SubSeq(stream, Least(Open) + 1, TagEnd - 1)
IsTagOnly == \E t \in (IF program = "client" THEN ClientTagOnly ELSE TagOnly) : TheTag = <<t>>

\* A command without an argument.
ParseTag ==
  /\ ~fragment /\ HasTag /\ IsTagOnly
  /\ found' = Append(found, Tag(TheTag[1]))
  /\ src' = TagEnd + 1
  /\ UNCHANGED <<program, cmds, stream, first, last, fragment>>

\* What a tag and an argument say; step 2 of parse() splits a filedata tag
\* at its commas.  None stands for no text, and for one that spans commands.
TextOf(s) == IF Len(s) = 1 THEN s[1] ELSE None
Saying(tag, arg) ==
  IF tag[1] # "filedata" THEN Command(tag[1], TextOf(arg))
  ELSE LET comma == Least({k \in 3 .. Len(tag) : tag[k] = ","})
       IN  FileData(TextOf(SubSeq(tag, 3, comma - 1)), Atoi(SubSeq(tag, comma + 1, Len(tag))),
                    TextOf(arg))

\* Mutant: the argument ends at the next <.
ParseArgumentShort ==
  /\ ~fragment /\ HasTag /\ ~IsTagOnly
  /\ \E m \in TagEnd + 1 .. last :
       /\ stream[m] = "<" /\ \A l \in TagEnd + 1 .. m - 1 : stream[l] # "<"
       /\ found' = Append(found, Saying(TheTag, SubSeq(stream, TagEnd + 1, m - 1)))
       /\ src' = m + 3
  /\ UNCHANGED <<program, cmds, stream, first, last, fragment>>

\* A command with an argument.
ParseArgument ==
  /\ ~fragment /\ HasTag /\ ~IsTagOnly
  /\ EndOf(TagEnd) # {}
  /\ LET m == Least(EndOf(TagEnd))
     IN  /\ found' = Append(found, Saying(TheTag, SubSeq(stream, TagEnd + 1, m - 1)))
         /\ src' = m + 3
  /\ UNCHANGED <<program, cmds, stream, first, last, fragment>>

\* The end of the buffer comes first: parse() returns 0.
ParseFragment ==
  /\ ~fragment
  /\ HasTag => ~IsTagOnly /\ EndOf(TagEnd) = {}
  /\ fragment' = TRUE
  /\ UNCHANGED <<program, cmds, stream, first, last, src, found>>

Next == HandleRead \/ Recv \/ ParseTag \/ ParseArgument \/ ParseFragment

Spec == Init /\ [][Next]_vars

\* TCP brings every byte, and the thread goes on.
FairSpec == Spec /\ WF_vars(Next)
-----------------------------------------------------------------------------
\* Where in the stream a command begins and ends.
Begin(k) == Len(Text(SubSeq(cmds, 1, k - 1))) + 1
End(k)   == Len(Text(SubSeq(cmds, 1, k)))

\* The buffer as Server.tla sees it: what is left of a command that began
\* earlier, and then the commands that are whole.
Cut == {k \in DOMAIN cmds : Begin(k) < first /\ first <= End(k)}
LeftOf(k) == IF HasArgument(cmds[k]) /\ first <= End(k) - 2 /\ End(k) <= last
             THEN <<Rest>> ELSE <<>>
Whole == SelectSeq([k \in DOMAIN cmds |-> k], LAMBDA k : first <= Begin(k) /\ End(k) <= last)
Buffer == (IF Cut = {} THEN <<>> ELSE LeftOf(CHOOSE k \in Cut : TRUE))
            \o [k \in DOMAIN Whole |-> cmds[Whole[k]]]

\* However read() cuts the stream, the commands the server executes are the
\* ones that Parsed() says, and none is executed before its turn.
ParsesAsModelled == program = "server" =>
  /\ Len(found) <= Len(Parsed(Buffer)) /\ found = SubSeq(Parsed(Buffer), 1, Len(found))
  /\ fragment => found = Parsed(Buffer)

\* However recv() cuts the stream, the client finds the commands that were
\* sent: whole, in order, none twice and none left out.
ClientTakesWhole == program = "client" => found = SubSeq(cmds, 1, Len(found))

\* It finds them all: its buffer never fills up with what it cannot parse.
ClientTakesAll == program = "client" ~> found = cmds
=============================================================================
