-------------------------- MODULE VPNProfileProofs --------------------------
(***************************************************************************)
(* What holds of VPNProfile for profiles of any length, any names of       *)
(* blocks, any spellings and any authorities: the two scanners agree,      *)
(* OpenVPN reads no line that they did not read, and what it reads of a    *)
(* rendered profile has been checked.                                      *)
(***************************************************************************)
EXTENDS VPNProfile, TLAPS

Accepted == phase \in {"directives", "trust", "rendered"}

\* The reader has read all lines so far.
Reads ==
    /\ reader[1] = NoBlock
    /\ \A i \in 1..Len(profile) : reader[i + 1] = After(reader[i], profile[i])

\* The tag in line i takes the parser from b to c.
Opens(i, b, c) == b = NoBlock /\ c \in Allowed /\ \E s \in Spellings : profile[i] = Open(c, s)
Closes(i, b, c) == b \in Allowed /\ c = NoBlock /\ \E s \in Spellings : profile[i] = Close(b, s)

\* The parser lets a tag pass only where it opens an allowed block or closes the one it is
\* in, and stays where it is on any other line.
WellFormed ==
    phase # "refused" =>
        /\ inside[1] = NoBlock /\ inside[Len(inside)] = current
        /\ \A i \in 1..Len(profile) :
               IF profile[i] \in Tags
               THEN Opens(i, inside[i], inside[i + 1]) \/ Closes(i, inside[i], inside[i + 1])
               ELSE inside[i + 1] = inside[i]

\* The lines at which a block begins.
Begins(i) == i \in 1..Len(profile) /\ inside[i] = NoBlock /\ profile[i].kind = "open"

\* A block that was opened is being read or has been collected, and no block is
\* opened twice.
Once ==
    phase # "refused" =>
        /\ current # NoBlock => blocks[current] = <<>>
        /\ \A i \in 1..Len(profile) :
               Begins(i) => blocks[profile[i].name] # <<>> \/ current = profile[i].name
        /\ \A i, j \in 1..Len(profile) :
               Begins(i) /\ Begins(j) /\ profile[i].name = profile[j].name => j = i

\* The certificates in block n, as the parser reads the profile.
Held(n) ==
    {a \in Authorities : \E i \in 1..Len(profile) : inside[i] = n /\ profile[i] = Certificate(a)}

\* The parser has collected these.
Collected ==
    phase # "refused" =>
        \A n \in Allowed :
            Held(n) = Trust(blocks[n]) \cup (IF current = n THEN Trust(content) ELSE {})

\* The lines the second scanner is done with.
Done == IF phase = "directives" THEN 1..at - 1 ELSE 1..Len(profile)

Checked ==
    /\ phase = "parse" => at = 1 /\ block = NoBlock /\ remote = FALSE
    /\ Accepted =>
        /\ current = NoBlock
        /\ \A i \in Done : inside[i] = NoBlock => ~Refused(profile[i])
        /\ remote => \E i \in Done : inside[i] = NoBlock /\ profile[i] = Other("remote")
        /\ phase # "directives" => remote
        /\ phase = "rendered" => IsTrustChain(blocks[CA])

\* OpenVPN reads nothing inside of blocks.
Hidden == \A i \in 1..Len(reader) : reader[i] = NoBlock => inside[i] = NoBlock

\* OpenVPN is in a block that the parser has closed, and that no tag will close: the
\* parser never opens that block again.
Lost ==
    LET b == reader[Len(reader)] IN b \in Blocks /\ b.name \in Allowed /\ blocks[b.name] # <<>>

AllAlike == \A i \in 1..Len(reader) : Alike(i)
Lowered ==
    /\ AllAlike
    /\ reader[Len(reader)] # NoBlock => reader[Len(reader)].spelling = Lower

Reading ==
    phase # "refused" /\ Unmasked =>
        /\ Hidden
        /\ AllAlike \/ Lost
        /\ LowerCase => Lowered

IInv ==
    TypeOK /\ ScannersAgree /\ Reads /\ WellFormed /\ Once /\ Collected /\ Checked /\ Reading

-----------------------------------------------------------------------------
\* A line that is no tag, in quotes or not, leaves OpenVPN where it is.
LEMMA NoTag ==
    ASSUME NEW b \in Blocks \cup {NoBlock}, NEW line \in Lines \ Tags, line.kind # "mask"
    PROVE  After(b, line) = b /\ line.kind # "open"
<1>1. line.kind \in {"certificate", "mask"} \cup OtherKinds
  BY ProfileAssumption DEF Lines, Certificates, Certificate, Other, Mask
<1>2. line.kind # "open"
  BY <1>1 DEF OtherKinds
<1>3. b # NoBlock => line # Close(b.name, b.spelling)
  BY DEF Tags, Blocks
<1> QED
  BY <1>2, <1>3 DEF After

\* Only tags open blocks.
LEMMA OpenIsTag ==
    ASSUME NEW line \in Lines, line.kind = "open"
    PROVE  line \in Tags /\ line.name \in Names
<1>1. line \in Tags
  <2>1. line \in Lines \ Tags => line.kind \in {"certificate", "mask"} \cup OtherKinds
    BY ProfileAssumption DEF Lines, Certificates, Certificate, Other, Mask
  <2> QED
    BY <2>1 DEF OtherKinds
<1>2. line.name \in Names
  BY <1>1 DEF Tags, Open, Close, BadTag, Other
<1> QED
  BY <1>1, <1>2

\* Tags are lines, and tell what they open and close.
LEMMA TagsDiffer ==
    \A n \in Names, s \in Spellings :
        /\ Open(n, s) \in Tags /\ Close(n, s) \in Tags
        /\ Open(n, s) \in Lines /\ Close(n, s) \in Lines
        /\ Open(n, s).kind = "open" /\ Open(n, s).name = n /\ Open(n, s).spelling = s
        /\ Close(n, s).kind = "close" /\ Close(n, s).name = n /\ Close(n, s).spelling = s
        /\ \A a \in Authorities : Certificate(a) # Open(n, s) /\ Certificate(a) # Close(n, s)
<1> SUFFICES ASSUME NEW n \in Names, NEW s \in Spellings
             PROVE  /\ Open(n, s) \in Tags /\ Close(n, s) \in Tags
                    /\ Open(n, s).kind = "open" /\ Open(n, s).name = n
                    /\ Open(n, s).spelling = s
                    /\ Close(n, s).kind = "close" /\ Close(n, s).name = n
                    /\ Close(n, s).spelling = s
                    /\ \A a \in Authorities : Certificate(a).kind = "certificate"
  BY DEF Lines
<1> QED
  BY DEF Tags, Open, Close, Certificate

\* OpenVPN is outside of blocks or in one.
LEMMA AfterType ==
    ASSUME NEW b \in Blocks \cup {NoBlock}, NEW line \in Lines
    PROVE  After(b, line) \in Blocks \cup {NoBlock}
<1>1. line.kind = "mask" => line.name \in Names /\ line.spelling \in Spellings
  BY ProfileAssumption
     DEF Lines, Tags, Open, Close, BadTag, Certificates, Certificate, Other, Mask, OtherKinds
<1>2. line.kind = "open" => line.name \in Names /\ line.spelling \in Spellings
  BY ProfileAssumption
     DEF Lines, Tags, Open, Close, BadTag, Certificates, Certificate, Other, Mask, OtherKinds
<1> QED
  BY <1>1, <1>2 DEF After, Block, Blocks

\* One more line: what was known of the others stays.
LEMMA LineTaken ==
    ASSUME TypeOK, Reads, NEW line \in Lines, NEW b \in Allowed \cup {NoBlock}, NextLine(line, b)
    PROVE  /\ profile' \in Seq(Lines) /\ Len(profile') = Len(profile) + 1
           /\ \A i \in 1..Len(profile) : profile'[i] = profile[i]
           /\ profile'[Len(profile) + 1] = line
           /\ inside' \in Seq(Allowed \cup {NoBlock}) /\ Len(inside') = Len(profile') + 1
           /\ \A i \in 1..Len(profile) + 1 : inside'[i] = inside[i]
           /\ inside'[Len(profile) + 2] = b
           /\ reader' \in Seq(Blocks \cup {NoBlock}) /\ Len(reader') = Len(profile') + 1
           /\ \A i \in 1..Len(profile) + 1 : reader'[i] = reader[i]
           /\ reader'[Len(profile) + 2] = After(reader[Len(profile) + 1], line)
           /\ Reads'
<1>1. After(reader[Len(reader)], line) \in Blocks \cup {NoBlock}
  BY AfterType DEF TypeOK
<1>2. /\ profile' = Append(profile, line) /\ inside' = Append(inside, b)
      /\ reader' = Append(reader, After(reader[Len(reader)], line))
  BY DEF NextLine
<1>3. /\ profile' \in Seq(Lines) /\ Len(profile') = Len(profile) + 1
      /\ \A i \in 1..Len(profile) : profile'[i] = profile[i]
      /\ profile'[Len(profile) + 1] = line
  BY <1>2 DEF TypeOK
<1>4. /\ reader' \in Seq(Blocks \cup {NoBlock}) /\ Len(reader') = Len(profile') + 1
      /\ \A i \in 1..Len(profile) + 1 : reader'[i] = reader[i]
      /\ reader'[Len(profile) + 2] = After(reader[Len(profile) + 1], line)
  BY <1>1, <1>2, <1>3 DEF TypeOK
<1>5. /\ inside' \in Seq(Allowed \cup {NoBlock}) /\ Len(inside') = Len(profile') + 1
      /\ \A i \in 1..Len(profile) + 1 : inside'[i] = inside[i]
      /\ inside'[Len(profile) + 2] = b
  BY <1>2, <1>3 DEF TypeOK
<1>6. Reads'
  <2>1. Len(profile) \in Nat /\ Len(reader) = Len(profile) + 1
    BY DEF TypeOK
  <2>2. reader'[1] = NoBlock
    BY <1>4, <2>1 DEF Reads
  <2>3. ASSUME NEW i \in 1..Len(profile) PROVE reader'[i + 1] = After(reader'[i], profile'[i])
    BY <1>3, <1>4, <2>1 DEF Reads
  <2>4. reader'[Len(profile) + 2] = After(reader'[Len(profile) + 1], profile'[Len(profile) + 1])
    BY <1>3, <1>4, <2>1
  <2>5. \A i \in 1..Len(profile') : i \in 1..Len(profile) \/ i = Len(profile) + 1
    BY <1>3, <2>1
  <2>6. \A i \in 1..Len(profile') : reader'[i + 1] = After(reader'[i], profile'[i])
    BY <2>1, <2>3, <2>4, <2>5
  <2> QED
    BY <2>2, <2>6 DEF Reads
<1> QED
  BY <1>3, <1>4, <1>5, <1>6, Zenon

\* A certificate in a block is one more of that block.
LEMMA HeldGrows ==
    ASSUME TypeOK, Reads, NEW line \in Lines, NEW b \in Allowed \cup {NoBlock}, NextLine(line, b),
           NEW n
    PROVE  Held(n)' = Held(n)
                \cup {a \in Authorities : inside[Len(inside)] = n /\ line = Certificate(a)}
<1>1. Len(inside) = Len(profile) + 1 /\ Len(profile) \in Nat
  BY DEF TypeOK
<1>2. /\ \A i \in 1..Len(profile') : i \in 1..Len(profile) \/ i = Len(profile) + 1
      /\ \A i \in 1..Len(profile) : i \in 1..Len(profile')
      /\ Len(profile) + 1 \in 1..Len(profile')
  BY <1>1, LineTaken
<1>3. /\ \A i \in 1..Len(profile) : profile'[i] = profile[i] /\ inside'[i] = inside[i]
      /\ profile'[Len(profile) + 1] = line
      /\ inside'[Len(profile) + 1] = inside[Len(inside)]
  BY <1>1, LineTaken
<1> DEFINE Last == Len(profile) + 1
           Holds(a) == \E i \in 1..Len(profile) : inside[i] = n /\ profile[i] = Certificate(a)
           Longer(a) == \E i \in 1..Len(profile') : inside'[i] = n /\ profile'[i] = Certificate(a)
<1>4. ASSUME NEW a \in Authorities
      PROVE  Longer(a) <=> Holds(a) \/ (inside[Len(inside)] = n /\ line = Certificate(a))
  <2>1. Holds(a) => Longer(a)
    BY <1>2, <1>3
  <2>2. inside[Len(inside)] = n /\ line = Certificate(a) => Longer(a)
    BY <1>2, <1>3
  <2>3. ASSUME NEW i \in 1..Len(profile'), inside'[i] = n, profile'[i] = Certificate(a)
        PROVE  Holds(a) \/ (inside[Len(inside)] = n /\ line = Certificate(a))
    <3>1. CASE i \in 1..Len(profile)
      BY <1>3, <2>3, <3>1
    <3>2. CASE i = Last
      BY <1>3, <2>3, <3>2
    <3> QED
      BY <1>2, <3>1, <3>2
  <2> QED
    BY <2>1, <2>2, <2>3
<1>5. Held(n) = {a \in Authorities : Holds(a)} /\ Held(n)' = {a \in Authorities : Longer(a)}
  BY DEF Held
<1> QED
  BY <1>4, <1>5

\* A certificate is added by the line that holds it and by no other.
LEMMA TrustGrows ==
    ASSUME NEW lines \in Seq(Lines \ Tags), NEW line \in Lines \ Tags
    PROVE  Trust(Append(lines, line))
               = Trust(lines) \cup {a \in Authorities : line = Certificate(a)}
<1>1. /\ Len(Append(lines, line)) = Len(lines) + 1 /\ Len(lines) \in Nat
      /\ \A i \in 1..Len(lines) : Append(lines, line)[i] = lines[i]
      /\ Append(lines, line)[Len(lines) + 1] = line
  OBVIOUS
<1> QED
  BY <1>1 DEF Trust

\* An empty block holds no certificate.
LEMMA TrustOfNone == Trust(<<>>) = {}
BY DEF Trust

\* What a longer profile is made of, a shorter one was.
LEMMA Shorter ==
    ASSUME TypeOK, Reads, NEW line \in Lines, NEW b \in Allowed \cup {NoBlock}, NextLine(line, b)
    PROVE  /\ Unmasked' => Unmasked /\ line.kind # "mask"
           /\ LowerCase' => LowerCase /\ line.spelling = Lower
<1>1. Len(profile) \in Nat
  BY DEF TypeOK
<1>2. Len(profile) + 1 \in 1..Len(profile') /\ \A i \in 1..Len(profile) : i \in 1..Len(profile')
  BY <1>1, LineTaken
<1> QED
  BY <1>1, <1>2, LineTaken DEF Unmasked, LowerCase

\* Line by line, Alike and Hidden have only the last line to look at.
LEMMA OneMore ==
    ASSUME TypeOK, Reads, NEW line \in Lines, NEW b \in Allowed \cup {NoBlock}, NextLine(line, b)
    PROVE  LET r == After(reader[Len(reader)], line) IN
           /\ reader'[Len(reader')] = r
           /\ Hidden /\ (r = NoBlock => b = NoBlock) => Hidden'
           /\ AllAlike /\ (IF b = NoBlock THEN r = NoBlock ELSE r # NoBlock /\ r.name = b) => AllAlike'
<1> DEFINE r == After(reader[Len(reader)], line)
<1>1. Len(profile) \in Nat /\ Len(reader) = Len(profile) + 1 /\ Len(inside) = Len(profile) + 1
  BY DEF TypeOK
<1>2. Len(reader') = Len(profile) + 2
  BY <1>1, LineTaken
<1>3. \A i \in 1..Len(reader') : i \in 1..Len(reader) \/ i = Len(profile) + 2
  BY <1>1, <1>2
<1>4. /\ \A i \in 1..Len(reader) : reader'[i] = reader[i] /\ inside'[i] = inside[i]
      /\ reader'[Len(profile) + 2] = r /\ inside'[Len(profile) + 2] = b
  BY <1>1, LineTaken
<1>5. Hidden /\ (r = NoBlock => b = NoBlock) => Hidden'
  BY <1>3, <1>4 DEF Hidden
<1>6. AllAlike /\ (IF b = NoBlock THEN r = NoBlock ELSE r # NoBlock /\ r.name = b) => AllAlike'
  BY <1>3, <1>4 DEF AllAlike, Alike
<1> QED
  BY <1>2, <1>4, <1>5, <1>6

\* What is read grows with the profile.
LEMMA WellFormedGrows ==
    ASSUME TypeOK, Reads, WellFormed, phase = "parse",
           NEW line \in Lines, NEW b \in Allowed \cup {NoBlock}, NextLine(line, b), current' = b,
           IF line \in Tags
           THEN \/ current = NoBlock /\ b \in Allowed /\ \E s \in Spellings : line = Open(b, s)
                \/ /\ current \in Allowed /\ b = NoBlock
                   /\ \E s \in Spellings : line = Close(current, s)
           ELSE b = current
    PROVE  WellFormed'
<1>1. Len(profile) \in Nat /\ Len(inside) = Len(profile) + 1 /\ inside[Len(profile) + 1] = current
  BY DEF TypeOK, WellFormed
<1>2. inside'[1] = NoBlock /\ inside'[Len(inside')] = b
  BY <1>1, LineTaken DEF WellFormed
<1>3. \A i \in 1..Len(profile') : i \in 1..Len(profile) \/ i = Len(profile) + 1
  BY <1>1, LineTaken
<1>4. ASSUME NEW i \in 1..Len(profile)
      PROVE  profile'[i] = profile[i] /\ inside'[i] = inside[i] /\ inside'[i + 1] = inside[i + 1]
  BY <1>1, LineTaken
<1>5. /\ profile'[Len(profile) + 1] = line /\ inside'[Len(profile) + 1] = current
      /\ inside'[Len(profile) + 1 + 1] = b
  BY <1>1, LineTaken
<1> DEFINE Follows(i) == IF profile[i] \in Tags
                         THEN \/ Opens(i, inside[i], inside[i + 1])
                              \/ Closes(i, inside[i], inside[i + 1])
                         ELSE inside[i + 1] = inside[i]
<1>6. phase # "refused" /\ \A i \in 1..Len(profile) : Follows(i)
  BY DEF WellFormed
<1>7. ASSUME NEW i \in 1..Len(profile)
      PROVE  IF profile'[i] \in Tags
             THEN \/ Opens(i, inside[i], inside[i + 1])'
                  \/ Closes(i, inside[i], inside[i + 1])'
             ELSE inside'[i + 1] = inside'[i]
  <2>1. Follows(i)
    BY <1>6
  <2> QED
    BY <1>4, <2>1 DEF Opens, Closes
<1>8. ASSUME NEW i, i = Len(profile) + 1
      PROVE  IF profile'[i] \in Tags
             THEN \/ Opens(i, inside[i], inside[i + 1])'
                  \/ Closes(i, inside[i], inside[i + 1])'
             ELSE inside'[i + 1] = inside'[i]
  <2>1. profile'[i] = line /\ inside'[i] = current /\ inside'[i + 1] = b
    BY <1>5, <1>8
  <2> QED
    BY <2>1 DEF Opens, Closes
<1> QED
  BY <1>2, <1>3, <1>7, <1>8 DEF WellFormed

-----------------------------------------------------------------------------
\* The parser keeps a line, or skips it.
LEMMA TakeLineStep ==
    ASSUME IInv, NEW line \in Lines, TakeLine(line)
    PROVE  IInv'
<1>1. /\ TypeOK /\ Reads /\ WellFormed /\ Once /\ Collected /\ Reading
      /\ NextLine(line, current) /\ current \in Allowed \cup {NoBlock}
      /\ line \in Lines \ Tags /\ phase = "parse" /\ phase' = phase
      /\ current' = current /\ blocks' = blocks
      /\ content' = IF current = NoBlock \/ line = Other("blank")
                    THEN content ELSE Append(content, line)
  BY DEF IInv, TakeLine, NextLine, TypeOK
<1>2. /\ Len(profile) \in Nat /\ Len(inside) = Len(profile) + 1 /\ Len(reader) = Len(profile) + 1
      /\ inside[Len(inside)] = current
  BY <1>1 DEF TypeOK, WellFormed
<1>3. line.kind # "open"
  BY <1>1, OpenIsTag
<1>4. TypeOK' /\ Reads'
  <2>1. content' \in Seq(Lines \ Tags)
    BY <1>1 DEF TypeOK
  <2> QED
    BY <1>1, <1>2, <2>1, LineTaken DEF TypeOK, TakeLine, NextLine, checker
<1>5. ScannersAgree' /\ WellFormed'
  BY <1>1, WellFormedGrows DEF ScannersAgree
<1>6. Once'
  <2>1. \A i : Begins(i)' => i \in 1..Len(profile) /\ Begins(i) /\ profile'[i] = profile[i]
    BY <1>1, <1>2, <1>3, LineTaken DEF Begins
  <2> QED
    BY <1>1, <2>1 DEF Once
<1>7. Collected'
  <2> SUFFICES ASSUME NEW n \in Allowed
               PROVE  Held(n)' = Trust(blocks[n])' \cup (IF current' = n THEN Trust(content)' ELSE {})
    BY DEF Collected
  <2>1. Held(n) = Trust(blocks[n]) \cup (IF current = n THEN Trust(content) ELSE {})
    BY <1>1 DEF Collected
  <2>2. Held(n)' = Held(n) \cup {a \in Authorities : current = n /\ line = Certificate(a)}
    BY <1>1, <1>2, HeldGrows
  <2>3. n # NoBlock
    BY ProfileAssumption
  <2>4. ASSUME current = n
        PROVE Trust(content') = Trust(content) \cup {a \in Authorities : line = Certificate(a)}
    <3>1. CASE line = Other("blank")
      BY <1>1, <2>3, <2>4, <3>1 DEF Other, Certificate
    <3>2. CASE line # Other("blank")
      BY <1>1, <2>3, <2>4, <3>2, TrustGrows DEF TypeOK
    <3> QED
      BY <3>1, <3>2
  <2> QED
    BY <1>1, <2>1, <2>2, <2>4 DEF Trust
<1>8. Checked'
  BY <1>1 DEF Checked, Accepted, IInv, TakeLine, NextLine, checker
<1>9. Reading'
  <2> SUFFICES ASSUME Unmasked' PROVE Hidden' /\ (AllAlike' \/ Lost') /\ (LowerCase' => Lowered')
    BY DEF Reading
  <2> DEFINE r == After(reader[Len(reader)], line)
  <2>1. Unmasked /\ line.kind # "mask" /\ (LowerCase' => LowerCase)
    BY <1>1, Shorter
  <2>2. Hidden /\ (AllAlike \/ Lost) /\ (LowerCase => Lowered)
    BY <1>1, <2>1 DEF Reading
  <2>3. r = reader[Len(reader)] /\ reader'[Len(reader')] = r
    <3>1. reader[Len(reader)] \in Blocks \cup {NoBlock}
      BY <1>1, <1>2 DEF TypeOK
    <3> QED
      BY <1>1, <2>1, <3>1, NoTag, OneMore
  <2>4. Hidden'
    BY <1>1, <1>2, <2>2, <2>3, OneMore DEF Hidden
  <2>5. AllAlike => AllAlike'
    BY <1>1, <1>2, <2>3, OneMore DEF AllAlike, Alike
  <2>6. Lost => Lost'
    BY <1>1, <2>3 DEF Lost
  <2> QED
    BY <2>1, <2>2, <2>3, <2>4, <2>5, <2>6 DEF Lowered
<1> QED
  BY <1>4, <1>5, <1>6, <1>7, <1>8, <1>9 DEF IInv

\* A block begins.
LEMMA OpenBlockStep ==
    ASSUME IInv, NEW n \in Names, NEW s \in Spellings, OpenBlock(n, s)
    PROVE  IInv'
<1> DEFINE line == Open(n, s)
<1>1. /\ TypeOK /\ Reads /\ WellFormed /\ Once /\ Collected /\ Reading
      /\ NextLine(line, n) /\ phase = "parse" /\ phase' = phase
      /\ current = NoBlock /\ n \in Allowed /\ blocks[n] = <<>> /\ n # NoBlock
      /\ current' = n /\ content' = <<>> /\ blocks' = blocks
  BY ProfileAssumption DEF IInv, OpenBlock, NextLine
<1>2. /\ Len(profile) \in Nat /\ Len(inside) = Len(profile) + 1 /\ Len(reader) = Len(profile) + 1
      /\ inside[Len(inside)] = NoBlock
  BY <1>1 DEF TypeOK, WellFormed
<1>3. line \in Lines /\ line \in Tags /\ line.kind = "open" /\ line.name = n /\ line.spelling = s
  BY TagsDiffer
<1>4. TypeOK' /\ Reads'
  BY <1>1, <1>2, <1>3, LineTaken DEF TypeOK, OpenBlock, NextLine, checker
<1>5. ScannersAgree' /\ WellFormed'
  BY <1>1, <1>3, WellFormedGrows DEF ScannersAgree
<1>6. Once'
  <2>1. \A i : Begins(i)' => \/ i \in 1..Len(profile) /\ Begins(i) /\ profile'[i] = profile[i]
                             \/ i = Len(profile) + 1 /\ profile'[i] = line
    BY <1>1, <1>2, <1>3, LineTaken DEF Begins
  <2>2. \A i \in 1..Len(profile) : Begins(i) => profile[i].name # n
    BY <1>1 DEF Once
  <2>3. ASSUME NEW i \in 1..Len(profile'), Begins(i)'
        PROVE  blocks'[profile'[i].name] # <<>> \/ current' = profile'[i].name
    <3>1. CASE i = Len(profile) + 1
      BY <1>1, <1>2, <1>3, <3>1, LineTaken
    <3>2. CASE i \in 1..Len(profile) /\ Begins(i) /\ profile'[i] = profile[i]
      <4>1. profile[i].name \in Names
        BY <1>1, <3>2, OpenIsTag DEF Begins, TypeOK
      <4>2. profile[i].name # NoBlock
        BY <4>1, ProfileAssumption
      <4> QED
        BY <1>1, <3>2, <4>2 DEF Once
    <3> QED
      BY <2>1, <2>3, <3>1, <3>2
  <2>4. ASSUME NEW i \in 1..Len(profile'), NEW j \in 1..Len(profile'), Begins(i)', Begins(j)',
               profile'[i].name = profile'[j].name
        PROVE  j = i
    <3>1. CASE i \in 1..Len(profile) /\ j \in 1..Len(profile)
      BY <1>1, <1>2, <2>1, <2>4, <3>1, LineTaken DEF Once, Begins
    <3>2. CASE i = Len(profile) + 1 /\ j \in 1..Len(profile)
      <4>1. profile'[j] = profile[j] /\ Begins(j) /\ profile'[i].name = n
        BY <1>1, <1>2, <1>3, <2>1, <2>4, <3>2, LineTaken
      <4> QED
        BY <2>2, <2>4, <3>2, <4>1
    <3>3. CASE j = Len(profile) + 1 /\ i \in 1..Len(profile)
      <4>1. profile'[i] = profile[i] /\ Begins(i) /\ profile'[j].name = n
        BY <1>1, <1>2, <1>3, <2>1, <2>4, <3>3, LineTaken
      <4> QED
        BY <2>2, <2>4, <3>3, <4>1
    <3>4. CASE i = Len(profile) + 1 /\ j = Len(profile) + 1
      BY <3>4
    <3> QED
      BY <2>1, <2>4, <3>1, <3>2, <3>3, <3>4
  <2> QED
    BY <1>1, <2>3, <2>4 DEF Once
<1>7. Collected'
  <2> SUFFICES ASSUME NEW m \in Allowed
               PROVE  Held(m)' = Trust(blocks[m])' \cup (IF current' = m THEN Trust(content)' ELSE {})
    BY DEF Collected
  <2>1. Held(m) = Trust(blocks[m])
    BY <1>1, ProfileAssumption DEF Collected
  <2>2. Held(m)' = Held(m) \cup {a \in Authorities : NoBlock = m /\ line = Certificate(a)}
    BY <1>1, <1>2, <1>3, HeldGrows
  <2>3. Held(m)' = Held(m) /\ Trust(content') = {}
    BY <1>1, <2>2, TagsDiffer, TrustOfNone
  <2> QED
    BY <1>1, <2>1, <2>3 DEF Trust
<1>8. Checked'
  BY <1>1 DEF Checked, Accepted, IInv, OpenBlock, NextLine, checker
<1>9. Reading'
  <2> SUFFICES ASSUME Unmasked' PROVE Hidden' /\ (AllAlike' \/ Lost') /\ (LowerCase' => Lowered')
    BY DEF Reading
  <2> DEFINE q == reader[Len(reader)]
             r == After(q, line)
  <2>1. Unmasked /\ (LowerCase' => LowerCase /\ line.spelling = Lower)
    BY <1>1, <1>3, Shorter
  <2>2. Hidden /\ (AllAlike \/ Lost) /\ (LowerCase => Lowered)
    BY <1>1, <2>1 DEF Reading
  <2>3. /\ r = IF q = NoBlock THEN [name |-> n, spelling |-> s] ELSE q
        /\ reader'[Len(reader')] = r /\ q \in Blocks \cup {NoBlock}
    <3>1. q \in Blocks \cup {NoBlock}
      BY <1>1, <1>2 DEF TypeOK
    <3>2. q # NoBlock => line # Close(q.name, q.spelling)
      BY DEF Open, Close
    <3>3. reader'[Len(reader')] = r
      BY <1>1, <1>3, OneMore
    <3> QED
      BY <1>3, <3>1, <3>2, <3>3 DEF After, Block
  <2>4. [name |-> n, spelling |-> s] # NoBlock
    BY ProfileAssumption DEF Blocks
  <2>5. Hidden'
    BY <1>1, <1>3, <2>2, <2>3, <2>4, OneMore
  <2>6. AllAlike => q = NoBlock /\ AllAlike'
    <3> SUFFICES ASSUME AllAlike PROVE q = NoBlock /\ AllAlike'
      OBVIOUS
    <3>1. q = NoBlock
      BY <1>2 DEF AllAlike, Alike
    <3> QED
      BY <1>1, <1>3, <2>3, <2>4, <3>1, OneMore
  <2>7. Lost => Lost'
    <3>1. Lost => q # NoBlock
      BY ProfileAssumption DEF Lost
    <3> QED
      BY <1>1, <2>3, <3>1 DEF Lost
  <2> QED
    BY <1>3, <2>1, <2>2, <2>3, <2>5, <2>6, <2>7 DEF Lowered
<1> QED
  BY <1>4, <1>5, <1>6, <1>7, <1>8, <1>9 DEF IInv

\* A block ends, and is collected.
LEMMA CloseBlockStep ==
    ASSUME IInv, NEW n \in Names, NEW s \in Spellings, CloseBlock(n, s)
    PROVE  IInv'
<1> DEFINE line == Close(n, s)
<1>1. /\ TypeOK /\ Reads /\ WellFormed /\ Once /\ Collected /\ Reading
      /\ NextLine(line, NoBlock) /\ phase = "parse" /\ phase' = phase
      /\ current = n /\ n \in Allowed /\ n # NoBlock /\ content # <<>> /\ blocks[n] = <<>>
      /\ current' = NoBlock /\ content' = content /\ blocks' = [blocks EXCEPT ![n] = content]
  <2>1. n # NoBlock
    BY ProfileAssumption
  <2> QED
    BY <2>1 DEF IInv, CloseBlock, NextLine, TypeOK, Once
<1>2. /\ Len(profile) \in Nat /\ Len(inside) = Len(profile) + 1 /\ Len(reader) = Len(profile) + 1
      /\ inside[Len(inside)] = n
  BY <1>1 DEF TypeOK, WellFormed
<1>3. line \in Lines /\ line \in Tags /\ line.kind = "close" /\ line.name = n /\ line.spelling = s
  BY TagsDiffer
<1>4. TypeOK' /\ Reads'
  BY <1>1, <1>2, <1>3, LineTaken DEF TypeOK, CloseBlock, NextLine, checker
<1>5. ScannersAgree' /\ WellFormed'
  BY <1>1, <1>3, WellFormedGrows DEF ScannersAgree
<1>10. \A m \in Allowed : blocks'[m] = IF m = n THEN content ELSE blocks[m]
  BY <1>1 DEF TypeOK
<1>6. Once'
  <2>1. \A i : Begins(i)' => i \in 1..Len(profile) /\ Begins(i) /\ profile'[i] = profile[i]
    BY <1>1, <1>2, <1>3, LineTaken DEF Begins
  <2>2. ASSUME NEW i \in 1..Len(profile'), Begins(i)'
        PROVE  blocks'[profile'[i].name] # <<>> \/ current' = profile'[i].name
    <3>1. i \in 1..Len(profile) /\ Begins(i) /\ profile'[i] = profile[i]
      BY <2>1, <2>2
    <3>2. profile[i].name \in Allowed
      <4>1. profile[i] \in Tags /\ profile[i].kind = "open"
        BY <1>1, <3>1, OpenIsTag DEF Begins, TypeOK
      <4>2. inside[i] = NoBlock /\ NoBlock \notin Allowed
        BY <3>1, ProfileAssumption DEF Begins
      <4>3. Opens(i, inside[i], inside[i + 1])
        BY <1>1, <3>1, <4>1, <4>2 DEF WellFormed, Closes
      <4>4. inside[i + 1] \in Allowed /\ profile[i].name = inside[i + 1]
        BY <4>3, TagsDiffer, ProfileAssumption DEF Opens
      <4> QED
        BY <4>4
    <3>3. blocks[profile[i].name] # <<>> \/ n = profile[i].name
      BY <1>1, <3>1 DEF Once
    <3> QED
      BY <1>1, <1>10, <3>1, <3>2, <3>3
  <2> QED
    BY <1>1, <2>1, <2>2 DEF Once
<1>7. Collected'
  <2> SUFFICES ASSUME NEW m \in Allowed
               PROVE  Held(m)' = Trust(blocks[m])' \cup (IF current' = m THEN Trust(content)' ELSE {})
    BY DEF Collected
  <2>1. Held(m) = Trust(blocks[m]) \cup (IF n = m THEN Trust(content) ELSE {})
    BY <1>1 DEF Collected
  <2>2. Held(m)' = Held(m) \cup {a \in Authorities : n = m /\ line = Certificate(a)}
    BY <1>1, <1>2, <1>3, HeldGrows
  <2>3. Held(m)' = Held(m)
    BY <1>1, <2>2, TagsDiffer
  <2>4. n = m => Trust(blocks[m]) = {}
    BY <1>1, TrustOfNone
  <2>5. Trust(blocks[m])' = IF n = m THEN Trust(content) ELSE Trust(blocks[m])
    BY <1>10 DEF Trust
  <2> QED
    BY <1>1, <2>1, <2>3, <2>4, <2>5, ProfileAssumption
<1>8. Checked'
  BY <1>1 DEF Checked, Accepted, IInv, CloseBlock, NextLine, checker
<1>9. Reading'
  <2> SUFFICES ASSUME Unmasked' PROVE Hidden' /\ (AllAlike' \/ Lost') /\ (LowerCase' => Lowered')
    BY DEF Reading
  <2> DEFINE q == reader[Len(reader)]
             r == After(q, line)
  <2>1. Unmasked /\ (LowerCase' => LowerCase /\ line.spelling = Lower)
    BY <1>1, <1>3, Shorter
  <2>2. Hidden /\ (AllAlike \/ Lost) /\ (LowerCase => Lowered)
    BY <1>1, <2>1 DEF Reading
  <2>3. reader'[Len(reader')] = r /\ q \in Blocks \cup {NoBlock}
    BY <1>1, <1>2, <1>3, OneMore DEF TypeOK
  <2>4. Hidden'
    BY <1>1, <1>3, <2>2, OneMore
  <2>5. AllAlike => q \in Blocks /\ q.name = n
    BY <1>1, <1>2, <2>3 DEF AllAlike, Alike
  <2>6. q \in Blocks => r = IF s = q.spelling /\ n = q.name THEN NoBlock ELSE q
    <3>1. q \in Blocks => q # NoBlock
      BY ProfileAssumption
    <3>2. q \in Blocks => (line = Close(q.name, q.spelling) <=> s = q.spelling /\ n = q.name)
      BY DEF Close
    <3> QED
      BY <3>1, <3>2 DEF After
  <2>7. AllAlike /\ q.spelling = s => r = NoBlock /\ AllAlike'
    <3>1. AllAlike /\ q.spelling = s => r = NoBlock
      BY <2>5, <2>6
    <3> QED
      BY <1>1, <1>3, <3>1, OneMore
  <2>8. AllAlike /\ q.spelling # s => Lost'
    <3> SUFFICES ASSUME AllAlike, q.spelling # s PROVE Lost'
      OBVIOUS
    <3>1. r = q /\ q \in Blocks /\ q.name = n
      BY <2>5, <2>6
    <3>2. blocks'[n] # <<>>
      BY <1>1, <1>10
    <3> QED
      BY <1>1, <2>3, <3>1, <3>2 DEF Lost
  <2>9. Lost => Lost'
    <3> SUFFICES ASSUME Lost PROVE Lost'
      OBVIOUS
    <3>1. q \in Blocks /\ q.name \in Allowed /\ blocks[q.name] # <<>>
      BY DEF Lost
    <3>2. q.name # n /\ r = q
      BY <1>1, <2>6, <3>1
    <3>3. blocks'[q.name] # <<>>
      BY <1>10, <3>1, <3>2
    <3> QED
      BY <2>3, <3>1, <3>2, <3>3 DEF Lost
  <2>10. LowerCase' => Lowered'
    <3> SUFFICES ASSUME LowerCase' PROVE Lowered'
      OBVIOUS
    <3>1. AllAlike /\ s = Lower /\ (q # NoBlock => q.spelling = Lower)
      BY <1>3, <2>1, <2>2 DEF Lowered
    <3>2. q # NoBlock
      BY <2>5, <3>1, ProfileAssumption
    <3>3. r = NoBlock /\ AllAlike'
      BY <2>7, <3>1, <3>2
    <3> QED
      BY <2>3, <3>3 DEF Lowered
  <2> QED
    BY <2>2, <2>4, <2>7, <2>8, <2>9, <2>10
<1> QED
  BY <1>4, <1>5, <1>6, <1>7, <1>8, <1>9 DEF IInv

\* A profile that is refused is not looked at any more.
LEMMA RefuseStep ==
    ASSUME IInv, TypeOK', Reads', phase' = "refused"
    PROVE  IInv'
BY DEF IInv, ScannersAgree, WellFormed, Once, Collected, Checked, Accepted, Reading

\* A tag is refused.
LEMMA RefuseTagStep ==
    ASSUME IInv, NEW line \in Lines, RefuseTag(line)
    PROVE  IInv'
<1>1. TypeOK /\ Reads /\ NextLine(line, current) /\ phase' = "refused"
  BY DEF IInv, RefuseTag
<1>2. current \in Allowed \cup {NoBlock}
  BY <1>1 DEF TypeOK
<1>3. TypeOK'
  BY <1>1, <1>2, LineTaken DEF TypeOK, Phases, RefuseTag, NextLine, checker, parser
<1> QED
  BY <1>1, <1>2, <1>3, LineTaken, RefuseStep

\* All steps after the parser's, and those that only change the phase.
LEMMA SameProfile ==
    ASSUME IInv, UNCHANGED <<readings, parser>>,
           phase' \in Phases \ {"parse"}, at' \in 1..Len(profile) + 1,
           block' \in Names \cup {NoBlock}, remote' \in BOOLEAN
    PROVE  /\ TypeOK' /\ Reads'
           /\ phase # "refused" => WellFormed' /\ Once' /\ Collected' /\ Reading'
<1>1. TypeOK'
  BY DEF IInv, TypeOK, parser, readings
<1>2. Reads'
  BY DEF IInv, Reads, readings
<1>3. phase # "refused" => WellFormed'
  BY DEF IInv, WellFormed, Opens, Closes, parser, readings
<1>4. phase # "refused" => Once'
  BY DEF IInv, Once, Begins, parser, readings
<1>5. phase # "refused" => Collected'
  BY DEF IInv, Collected, Held, Trust, parser, readings
<1>6. phase # "refused" => Reading'
  BY DEF IInv, Reading, Hidden, AllAlike, Alike, Lost, Lowered, LowerCase, Unmasked, parser, readings
<1> QED
  BY <1>1, <1>2, <1>3, <1>4, <1>5, <1>6

\* The parser ends outside of any block.
LEMMA EndParseStep ==
    ASSUME IInv, EndParse
    PROVE  IInv'
<1>1. UNCHANGED <<readings, parser, checker>> /\ phase = "parse" /\ TypeOK
  BY DEF EndParse, IInv
<1>2. CASE current # NoBlock
  <2>1. phase' = "refused"
    BY <1>2 DEF EndParse
  <2> QED
    BY <1>1, <2>1, SameProfile, RefuseStep DEF TypeOK, Phases, checker
<1>3. CASE current = NoBlock
  <2>1. phase' = "directives"
    BY <1>3 DEF EndParse
  <2>2. TypeOK' /\ Reads' /\ WellFormed' /\ Once' /\ Collected' /\ Reading'
    BY <1>1, <2>1, SameProfile DEF TypeOK, Phases, checker
  <2>3. at = 1 /\ block = NoBlock /\ remote = FALSE
    BY <1>1 DEF IInv, Checked
  <2>4. ScannersAgree'
    BY <1>1, <2>1, <2>3 DEF ScannersAgree, checker, readings, IInv, WellFormed
  <2>5. Checked'
    BY <1>1, <1>3, <2>1, <2>3 DEF Checked, Accepted, Done, checker, parser
  <2> QED
    BY <2>2, <2>4, <2>5 DEF IInv
<1> QED
  BY <1>2, <1>3

\* The second scanner passes a tag as the first did.
LEMMA CheckTagStep ==
    ASSUME IInv, CheckTag
    PROVE  IInv'
<1>1. /\ UNCHANGED <<readings, parser>> /\ phase = "directives" /\ phase' = phase
      /\ at \in 1..Len(profile) /\ at' = at + 1 /\ remote' = remote /\ profile[at] \in Tags
      /\ block' = IF profile[at].kind = "close" THEN NoBlock ELSE profile[at].name
  BY DEF CheckTag, Checking, IInv, TypeOK
<1>2. block' = inside[at + 1]
  <2>1. Opens(at, inside[at], inside[at + 1]) \/ Closes(at, inside[at], inside[at + 1])
    BY <1>1 DEF IInv, WellFormed
  <2>2. CASE Opens(at, inside[at], inside[at + 1])
    BY <1>1, <2>2, TagsDiffer, ProfileAssumption DEF Opens
  <2>3. CASE Closes(at, inside[at], inside[at + 1])
    BY <1>1, <2>3, TagsDiffer, ProfileAssumption DEF Closes
  <2> QED
    BY <2>1, <2>2, <2>3
<1>3. TypeOK' /\ Reads' /\ WellFormed' /\ Once' /\ Collected' /\ Reading'
  <2>1. block' \in Names \cup {NoBlock} /\ at' \in 1..Len(profile) + 1
    BY <1>1, <1>2, ProfileAssumption DEF IInv, TypeOK
  <2> QED
    BY <1>1, <2>1, SameProfile DEF IInv, TypeOK, Phases
<1>4. ScannersAgree'
  BY <1>1, <1>2 DEF ScannersAgree, readings
<1>5. Checked'
  <2>1. ~Refused(profile[at])
    BY <1>1, TagsDiffer DEF Refused, Other, Tags, Open, Close, BadTag
  <2>2. at - 1 \in Nat /\ Done' = Done \cup {at}
    BY <1>1 DEF Done
  <2> QED
    BY <1>1, <2>1, <2>2 DEF IInv, Checked, Accepted, parser, readings
<1> QED
  BY <1>3, <1>4, <1>5 DEF IInv

\* The second scanner looks at a line outside of blocks.
LEMMA CheckLineStep ==
    ASSUME IInv, CheckLine
    PROVE  IInv'
<1>1. /\ UNCHANGED <<readings, parser>> /\ phase = "directives" /\ phase' = phase
      /\ at \in 1..Len(profile) /\ at' = at + 1 /\ block' = block /\ block = inside[at]
      /\ profile[at] \in Lines \ Tags /\ (block = NoBlock => ~Refused(profile[at]))
      /\ remote' = (remote \/ (block = NoBlock /\ profile[at] = Other("remote")))
  BY DEF CheckLine, Checking, IInv, TypeOK, ScannersAgree
<1>2. inside[at + 1] = inside[at]
  BY <1>1 DEF IInv, WellFormed
<1>3. TypeOK' /\ Reads' /\ WellFormed' /\ Once' /\ Collected' /\ Reading'
  <2>1. remote' \in BOOLEAN /\ at' \in 1..Len(profile) + 1
    BY <1>1 DEF IInv, TypeOK
  <2> QED
    BY <1>1, <2>1, SameProfile DEF IInv, TypeOK, Phases
<1>4. ScannersAgree'
  BY <1>1, <1>2 DEF ScannersAgree, readings
<1>5. Checked'
  <2>1. at - 1 \in Nat /\ Done' = Done \cup {at}
    BY <1>1 DEF Done
  <2> QED
    BY <1>1, <2>1 DEF IInv, Checked, Accepted, parser, readings
<1> QED
  BY <1>3, <1>4, <1>5 DEF IInv

\* The checks after the scanners.
LEMMA LaterStep ==
    ASSUME IInv, RefuseDirective \/ EndDirectives \/ Render
    PROVE  IInv'
<1>1. /\ UNCHANGED <<readings, parser, checker>> /\ phase \in {"directives", "trust"}
      /\ phase' \in {"trust", "rendered", "refused"}
  BY DEF RefuseDirective, EndDirectives, Render, Checking
<1>2. TypeOK' /\ Reads' /\ WellFormed' /\ Once' /\ Collected' /\ Reading'
  BY <1>1, SameProfile DEF IInv, TypeOK, Phases, checker
<1>3. CASE phase' = "refused"
  BY <1>2, <1>3, RefuseStep
<1>4. CASE phase' # "refused"
  <2>1. remote /\ (phase = "directives" => at = Len(profile) + 1 /\ phase' = "trust")
        /\ (phase = "trust" => phase' = "rendered" /\ IsTrustChain(blocks[CA]))
    BY <1>1, <1>4 DEF RefuseDirective, EndDirectives, Render, IInv, Checked, Accepted
  <2>2. Len(profile) \in Nat /\ Done' = Done
    BY <1>1, <2>1 DEF Done, IInv, TypeOK, readings
  <2>3. Checked'
    BY <1>1, <2>1, <2>2 DEF IInv, Checked, Accepted, parser, checker, readings
  <2>4. ScannersAgree'
    BY <1>1 DEF ScannersAgree
  <2> QED
    BY <1>2, <2>3, <2>4 DEF IInv
<1> QED
  BY <1>3, <1>4

\* Every step keeps the invariant.
LEMMA Inductive == IInv /\ [Next]_vars => IInv'
<1> SUFFICES ASSUME IInv, [Next]_vars PROVE IInv'
  OBVIOUS
<1>1. CASE UNCHANGED vars
  <2>1. TypeOK' /\ ScannersAgree' /\ Reads' /\ WellFormed' /\ Once'
    BY <1>1 DEF vars, IInv, TypeOK, ScannersAgree, Reads, WellFormed, Opens, Closes, Once, Begins
  <2>2. Collected' /\ Checked'
    BY <1>1 DEF vars, IInv, Collected, Held, Checked, Accepted, Done
  <2>3. Reading'
    BY <1>1
       DEF vars, IInv, Reading, Hidden, AllAlike, Alike, Lost, Lowered, LowerCase, Unmasked
  <2> QED
    BY <2>1, <2>2, <2>3 DEF IInv
<1> QED
  BY <1>1, TakeLineStep, RefuseTagStep, OpenBlockStep, CloseBlockStep, EndParseStep, CheckTagStep,
     CheckLineStep, LaterStep DEF Next, Parse

\* The first state.
LEMMA InitInv == Init => IInv
<1> SUFFICES ASSUME Init PROVE IInv
  OBVIOUS
<1>1. /\ profile = <<>> /\ phase = "parse" /\ current = NoBlock /\ content = <<>> /\ at = 1
      /\ block = NoBlock /\ remote = FALSE /\ reader = <<NoBlock>> /\ inside = <<NoBlock>>
      /\ Len(profile) = 0 /\ blocks = [n \in Allowed |-> <<>>]
  BY DEF Init
<1>2. TypeOK
  <2>1. profile \in Seq(Lines) /\ <<>> \in Seq(Lines \ Tags) /\ at \in 1..Len(profile) + 1
    BY <1>1
  <2>2. reader \in Seq(Blocks \cup {NoBlock}) /\ inside \in Seq(Allowed \cup {NoBlock})
    BY <1>1
  <2>3. Len(reader) = Len(profile) + 1 /\ Len(inside) = Len(profile) + 1
    BY <1>1
  <2>4. blocks \in [Allowed -> Seq(Lines \ Tags)]
    BY <1>1, <2>1
  <2> QED
    BY <1>1, <2>1, <2>2, <2>3, <2>4 DEF TypeOK, Phases
<1>3. ScannersAgree /\ Reads /\ WellFormed /\ Once
  BY <1>1 DEF ScannersAgree, Reads, WellFormed, Once, Begins
<1>4. Collected
  BY <1>1, TrustOfNone, ProfileAssumption DEF Collected, Held
<1>5. Checked
  BY <1>1 DEF Checked, Accepted
<1>6. Reading
  BY <1>1 DEF Reading, Hidden, AllAlike, Alike, Lowered
<1> QED
  BY <1>2, <1>3, <1>4, <1>5, <1>6 DEF IInv

\* The invariant says what OpenVPN reads.
LEMMA InvReader == IInv => ReaderAgrees
<1> SUFFICES ASSUME IInv, phase # "refused", Unmasked PROVE ReaderAgrees
  BY DEF ReaderAgrees
<1>1. Hidden /\ (AllAlike \/ Lost) /\ (LowerCase => AllAlike)
  BY DEF IInv, Reading, Lowered
<1>2. Lost => reader[Len(reader)] # NoBlock
  BY ProfileAssumption DEF Lost
<1> QED
  BY <1>1, <1>2 DEF ReaderAgrees, Hidden, AllAlike

\* ... and what has been checked of it in a rendered profile.
LEMMA InvChecked == IInv => RenderedIsChecked
<1> SUFFICES ASSUME IInv, phase = "rendered", Unmasked PROVE RenderedIsChecked
  BY DEF RenderedIsChecked
<1>1. /\ current = NoBlock /\ IsTrustChain(blocks[CA])
      /\ \A i \in 1..Len(profile) : inside[i] = NoBlock => ~Refused(profile[i])
      /\ \E i \in 1..Len(profile) : inside[i] = NoBlock /\ profile[i] = Other("remote")
  BY DEF IInv, Checked, Accepted, Done
<1>2. /\ Len(profile) \in Nat /\ Len(reader) = Len(profile) + 1 /\ Len(inside) = Len(profile) + 1
      /\ inside[Len(inside)] = NoBlock
  BY <1>1 DEF IInv, TypeOK, WellFormed
<1>3. Hidden /\ (LowerCase \/ reader[Len(reader)] = NoBlock => AllAlike)
  BY InvReader DEF ReaderAgrees, Hidden, AllAlike
<1>4. \A i \in Outside : i \in 1..Len(profile) /\ inside[i] = NoBlock
  BY <1>2, <1>3 DEF Outside, Hidden
<1>5. ASSUME NEW i \in Outside, profile[i].kind = "open"
      PROVE  /\ profile[i].name \in Allowed
             /\ \A j \in Outside :
                    profile[j].kind = "open" /\ profile[j].name = profile[i].name => j = i
  <2>1. profile[i] \in Tags
    BY <1>4, <1>5, OpenIsTag DEF IInv, TypeOK
  <2>2. inside[i] \notin Allowed
    BY <1>4, <1>5, ProfileAssumption
  <2>3. Opens(i, inside[i], inside[i + 1])
    BY <1>4, <1>5, <2>1, <2>2 DEF IInv, WellFormed, Closes
  <2>4. profile[i].name \in Allowed
    BY <2>3, TagsDiffer, ProfileAssumption DEF Opens
  <2> QED
    BY <1>4, <1>5, <2>4 DEF IInv, Once, Begins
<1>6. LowerCase => reader[Len(reader)] = NoBlock
  BY <1>2, <1>3 DEF AllAlike, Alike
<1>7. ASSUME reader[Len(reader)] = NoBlock
      PROVE  /\ \E i \in Outside : profile[i] = Other("remote")
             /\ Roots(Trusted) # {} /\ \A a \in Trusted : Verifies(a, Trusted)
  <2>1. \A i \in 1..Len(profile) : Alike(i)
    BY <1>2, <1>3, <1>7 DEF AllAlike
  <2>2. \E i \in Outside : profile[i] = Other("remote")
    BY <1>1, <2>1 DEF Alike, Outside
  <2>3. Trusted = Held(CA)
    <3>1. CA # NoBlock
      BY ProfileAssumption
    <3>2. \A i \in 1..Len(profile) : (reader[i] # NoBlock /\ reader[i].name = CA) <=> inside[i] = CA
      BY <2>1, <3>1 DEF Alike
    <3> QED
      BY <3>2 DEF Trusted, Held
  <2>4. Held(CA) = Trust(blocks[CA])
    BY <1>1, ProfileAssumption DEF IInv, Collected
  <2> QED
    BY <1>1, <2>2, <2>3, <2>4 DEF IsTrustChain
<1> QED
  BY <1>1, <1>4, <1>5, <1>6, <1>7 DEF RenderedIsChecked

\* The inductive invariant holds always.
THEOREM Invariance == Spec => []IInv
BY InitInv, Inductive, PTL DEF Spec

\* The types of the variables.
THEOREM TypeCorrect == Spec => []TypeOK
<1>1. IInv => TypeOK
  BY DEF IInv
<1> QED
  BY <1>1, Invariance, PTL

\* auth.go:755-861 - for profiles of any length, any names of blocks and any spellings, the
\* scanner of the directives is in the block that the parser was in.
THEOREM Agreement == Spec => []ScannersAgree
<1>1. IInv => ScannersAgree
  BY DEF IInv
<1> QED
  BY <1>1, Invariance, PTL

\* auth.go:755-804 - OpenVPN, which compares tags as they are written, acts on no line that
\* the parser took for the content of a block, and reads all as the parser did or never gets
\* out of a block; tags in quotes excepted.
THEOREM ReaderAgreement == Spec => []ReaderAgrees
BY Invariance, InvReader, PTL

\* auth.go:755-933 - what OpenVPN acts on in a rendered profile has passed the checks; tags
\* in quotes excepted.
THEOREM CheckedProfile == Spec => []RenderedIsChecked
BY Invariance, InvChecked, PTL
=============================================================================
