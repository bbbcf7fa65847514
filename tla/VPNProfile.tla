----------------------------- MODULE VPNProfile -----------------------------
(***************************************************************************)
(* renderVPNProfile (src/internal/workflow/auth.go): the profile that a    *)
(* VPN server hands out is taken apart twice, line by line, by two         *)
(* scanners that are written apart.  parseVPNInlineBlocks collects the     *)
(* inline blocks and refuses all but a few; validateVPNDirectives looks at *)
(* the lines outside of blocks and refuses what asks for credentials,      *)
(* files or scripts.  If the certificates of the block ca are a trust      *)
(* chain, <cert> and <key> are appended to the profile.  Who reads the     *)
(* result is OpenVPN, which has rules of its own: both scanners fold the   *)
(* letter case of a tag, and OpenVPN compares it as it is written.         *)
(*                                                                         *)
(* The profile is given as a whole; the model chooses each of its lines    *)
(* when the first scanner gets there.                                      *)
(***************************************************************************)
EXTENDS Integers, Sequences

CONSTANTS
    MaxLines,     \* a bound: how many lines a profile has
    Allowed, CA,  \* the names of the blocks a profile may hold, ca among them
    Names,        \* the names of blocks, in lower case
    Spellings,    \* the ways to write a name that differ in letter case
    Lower,        \* ... the one in lower case
    Masked,       \* the names that occur in tags only OpenVPN takes for tags
    NoBlock,      \* outside of any block
    Authorities,  \* certificates of authorities, valid now
    Issuer,       \* certificate -> the one that signed it
    Others        \* kinds of other lines

\* <name>, </name>, and all that starts with "<" and is neither.
Open(n, s) == [kind |-> "open", name |-> n, spelling |-> s]
Close(n, s) == [kind |-> "close", name |-> n, spelling |-> s]
Other(k) == [kind |-> k, name |-> NoBlock, spelling |-> Lower]
BadTag == Other("tag")
Tags == {Open(n, s) : n \in Names, s \in Spellings}
        \cup {Close(n, s) : n \in Names, s \in Spellings} \cup {BadTag}

\* A tag in quotes: to the scanners a directive nobody knows, to OpenVPN an opening tag.
Mask(n) == [kind |-> "mask", name |-> n, spelling |-> Lower]

\* A certificate takes many lines of the file and one of the model.
Certificate(a) == [kind |-> "certificate", name |-> a, spelling |-> Lower]
Certificates == {Certificate(a) : a \in Authorities}
Lines == Tags \cup Certificates \cup {Mask(n) : n \in Masked} \cup {Other(k) : k \in Others}

\* "remote": one that parses.  "refused": a directive of the list in
\* validateVPNDirectives, a proxy with a file, and a remote or a proxy that does not
\* parse.  "pem": PEM of another kind, or a certificate that is expired or no
\* authority's.  "text": any other line: comments, and directives the list does not
\* name, or not in the form they are written in.
OtherKinds == {"blank", "remote", "refused", "pem", "text"}

\* What OpenVPN keeps of a block it is in.
Blocks == [name : Names, spelling : Spellings]

ASSUME ProfileAssumption ==
    /\ MaxLines \in Nat
    /\ CA \in Allowed /\ Allowed \subseteq Names /\ Masked \subseteq Names
    /\ NoBlock \notin Names \cup Blocks
    /\ Lower \in Spellings
    /\ Issuer \in [Authorities -> Authorities \cup {NoBlock}] /\ NoBlock \notin Authorities
    /\ Others \subseteq OtherKinds

VARIABLES
    profile,  \* the lines so far
    phase,    \* "parse", "directives", "trust", "rendered" or "refused"
    current,  \* parseVPNInlineBlocks: the block it is in
    content,  \* ... the lines of that block
    blocks,   \* ... block -> its lines, none when there is no such block
    inside,   \* ... the block it was in before each line and at the end (ghost)
    at,       \* validateVPNDirectives: the number of the line it looks at
    block,    \* ... the block it is in
    remote,   \* ... it has found a remote
    reader    \* the block that OpenVPN is in before each line and at the end

vars == <<profile, phase, current, content, blocks, inside, at, block, remote, reader>>

Init ==
    /\ profile = <<>> /\ phase = "parse"
    /\ current = NoBlock /\ content = <<>>
    /\ blocks = [n \in Allowed |-> <<>>]
    /\ at = 1 /\ block = NoBlock /\ remote = FALSE
    /\ inside = <<NoBlock>> /\ reader = <<NoBlock>>

parser == <<current, content, blocks>>
checker == <<at, block, remote>>
readings == <<profile, inside, reader>>

-----------------------------------------------------------------------------
\* External: OpenVPN takes all lines up to the closing tag of a block as they are, and
\* that tag has to be written as the opening one.
Block(line) == [name |-> line.name, spelling |-> line.spelling]
After(b, line) ==
    IF b = NoBlock THEN (IF line.kind \in {"open", "mask"} THEN Block(line) ELSE NoBlock)
    ELSE IF line = Close(b.name, b.spelling) THEN NoBlock ELSE b

\* The next line, and the block the parser is in behind it.
NextLine(line, b) ==
    /\ phase = "parse" /\ Len(profile) < MaxLines
    /\ profile' = Append(profile, line)
    /\ inside' = Append(inside, b)
    /\ reader' = Append(reader, After(reader[Len(reader)], line))
    /\ UNCHANGED checker

(***************************************************************************)
(* parseVPNInlineBlocks.  What it keeps of a tag is the name in lower case.*)
(***************************************************************************)
\* What the parser keeps of a line: TrimSpace drops the blank ones at the ends.
TakeLine(line) ==
    /\ NextLine(line, current) /\ line \notin Tags
    /\ content' = IF current = NoBlock \/ line = Other("blank")
                  THEN content ELSE Append(content, line)
    /\ UNCHANGED <<phase, current, blocks>>

\* Mutant: a block may be of any name.
OpenAny(n, s) ==
    /\ NextLine(Open(n, s), n)
    /\ current = NoBlock /\ (n \in Allowed => blocks[n] = <<>>)
    /\ current' = n /\ content' = <<>>
    /\ UNCHANGED <<phase, blocks>>

\* Mutant: the tag of a block that is not allowed is skipped.
OpenSkipped(n, s) ==
    LET b == IF n \in Allowed THEN n ELSE NoBlock
    IN  /\ NextLine(Open(n, s), b)
        /\ current = NoBlock /\ (n \in Allowed => blocks[n] = <<>>)
        /\ current' = b /\ content' = <<>>
        /\ UNCHANGED <<phase, blocks>>

\* Mutant: a block may be there twice.
OpenTwice(n, s) ==
    /\ NextLine(Open(n, s), n)
    /\ current = NoBlock /\ n \in Allowed
    /\ current' = n /\ content' = <<>>
    /\ UNCHANGED <<phase, blocks>>

OpenBlock(n, s) ==
    /\ NextLine(Open(n, s), n)
    /\ current = NoBlock /\ n \in Allowed /\ blocks[n] = <<>>
    /\ current' = n /\ content' = <<>>
    /\ UNCHANGED <<phase, blocks>>

CloseBlock(n, s) ==
    /\ NextLine(Close(n, s), NoBlock)
    /\ current = n /\ content # <<>>
    /\ blocks' = [blocks EXCEPT ![n] = content]
    /\ current' = NoBlock
    /\ UNCHANGED <<phase, content>>

\* A malformed tag, a block in a block, one that is not allowed or is there
\* already, a closing tag of another block or of an empty one.
RefuseTag(line) ==
    /\ NextLine(line, current) /\ line \in Tags
    /\ line.kind = "open" /\ line.name \in Allowed => current # NoBlock \/ blocks[line.name] # <<>>
    /\ line.kind = "close" => current # line.name \/ content = <<>>
    /\ phase' = "refused"
    /\ UNCHANGED parser

EndParse ==
    /\ phase = "parse"
    /\ phase' = IF current = NoBlock THEN "directives" ELSE "refused"
    /\ UNCHANGED <<readings, parser, checker>>

(***************************************************************************)
(* validateVPNDirectives.                                                  *)
(***************************************************************************)
Checking ==
    /\ phase = "directives" /\ at <= Len(profile)
    /\ UNCHANGED <<readings, parser>>

\* Any closing tag ends any block, and any other tag begins one.
CheckTag ==
    /\ Checking /\ profile[at] \in Tags
    /\ block' = IF profile[at].kind = "close" THEN NoBlock ELSE profile[at].name
    /\ at' = at + 1
    /\ UNCHANGED <<phase, remote>>

Refused(line) == line = Other("refused")

CheckLine ==
    /\ Checking /\ profile[at] \notin Tags
    /\ block = NoBlock => ~Refused(profile[at])
    /\ remote' = (remote \/ (block = NoBlock /\ profile[at] = Other("remote")))
    /\ at' = at + 1
    /\ UNCHANGED <<phase, block>>

RefuseDirective ==
    /\ Checking /\ profile[at] \notin Tags
    /\ block = NoBlock /\ Refused(profile[at])
    /\ phase' = "refused"
    /\ UNCHANGED checker

EndDirectives ==
    /\ phase = "directives" /\ at = Len(profile) + 1
    /\ phase' = IF remote THEN "trust" ELSE "refused"
    /\ UNCHANGED <<readings, parser, checker>>

(***************************************************************************)
(* profileTrustChain, parseCertificateChain.                               *)
(***************************************************************************)
Roots(trust) == {a \in trust : Issuer[a] = a}

\* External: x509's Verify finds a path to a root in what it was given.
Verifies(a, trust) ==
    \E path \in SUBSET trust :
        /\ a \in path /\ path \cap Roots(trust) # {}
        /\ \A b \in path : Issuer[b] \in path

\* The PEM decoder skips text before a certificate, not after the last.
Trust(lines) == {a \in Authorities : \E i \in 1..Len(lines) : lines[i] = Certificate(a)}
ParsesAsTrust(lines) ==
    /\ lines # <<>> /\ lines[Len(lines)] \in Certificates
    /\ \A i \in 1..Len(lines) : lines[i] # Other("pem")
\* Mutant: a root is enough.
HasRoot(lines) == ParsesAsTrust(lines) /\ Roots(Trust(lines)) # {}

IsTrustChain(lines) ==
    /\ ParsesAsTrust(lines) /\ Roots(Trust(lines)) # {}
    /\ \A a \in Trust(lines) : Verifies(a, Trust(lines))

\* The profile, <cert> and <key>.
Render ==
    /\ phase = "trust"
    /\ phase' = IF IsTrustChain(blocks[CA]) THEN "rendered" ELSE "refused"
    /\ UNCHANGED <<readings, parser, checker>>

Parse ==
    \/ \E line \in Lines : TakeLine(line) \/ RefuseTag(line)
    \/ \E n \in Names, s \in Spellings : OpenBlock(n, s) \/ CloseBlock(n, s)
    \/ EndParse

Next == Parse \/ CheckTag \/ CheckLine \/ RefuseDirective \/ EndDirectives \/ Render

Spec == Init /\ [][Next]_vars

-----------------------------------------------------------------------------
Phases == {"parse", "directives", "trust", "rendered", "refused"}

TypeOK ==
    /\ profile \in Seq(Lines) /\ phase \in Phases
    /\ current \in Allowed \cup {NoBlock} /\ content \in Seq(Lines \ Tags)
    /\ blocks \in [Allowed -> Seq(Lines \ Tags)]
    /\ inside \in Seq(Allowed \cup {NoBlock}) /\ Len(inside) = Len(profile) + 1
    /\ at \in 1..Len(profile) + 1 /\ block \in Names \cup {NoBlock} /\ remote \in BOOLEAN
    /\ reader \in Seq(Blocks \cup {NoBlock}) /\ Len(reader) = Len(profile) + 1

\* auth.go:755-861 - the two scanners, written apart and with different rules for closing
\* tags, agree on which lines are in which block: the one that looks at directives skips
\* just the lines that the other has taken for the content of a block.
ScannersAgree == phase = "directives" => block = inside[at]

\* No tag is in quotes, and all are in lower case.
Unmasked == \A i \in 1..Len(profile) : profile[i].kind # "mask"
LowerCase == \A i \in 1..Len(profile) : profile[i].spelling = Lower

\* OpenVPN takes a line for the content of the block that the parser does.
Alike(i) ==
    IF inside[i] = NoBlock THEN reader[i] = NoBlock
    ELSE reader[i] # NoBlock /\ reader[i].name = inside[i]

\* auth.go:755-804 - OpenVPN never acts on a line that ict took for the content of a block,
\* in whatever letter case the tags are.  When it gets out of its last block, as it always
\* does if they are in lower case, then it reads every line as ict did; if not, it is in a
\* block that never ends, and rejects the profile.  Tags in quotes are excepted: ict does
\* not know them for tags.
ReaderAgrees ==
    phase # "refused" /\ Unmasked =>
        /\ \A i \in 1..Len(reader) : reader[i] = NoBlock => inside[i] = NoBlock
        /\ LowerCase \/ reader[Len(reader)] = NoBlock => \A i \in 1..Len(reader) : Alike(i)

\* auth.go:755-933 - what OpenVPN acts on in a profile that is rendered (tags in quotes
\* excepted) has passed the checks: no directive that the list refuses, no block but the
\* allowed ones and none twice; and unless OpenVPN rejects it, <cert> and <key> are appended
\* outside of blocks, there is a remote, and ca holds a root and only certificates that
\* lead to a root.  Whether the list is complete is not said.
Outside == {i \in 1..Len(profile) : reader[i] = NoBlock}
Trusted ==
    {a \in Authorities : \E i \in 1..Len(profile) :
        reader[i] # NoBlock /\ reader[i].name = CA /\ profile[i] = Certificate(a)}
RenderedIsChecked ==
    phase = "rendered" /\ Unmasked =>
        /\ \A i \in Outside : ~Refused(profile[i])
        /\ \A i \in Outside : profile[i].kind = "open" =>
               /\ profile[i].name \in Allowed
               /\ \A j \in Outside :
                      profile[j].kind = "open" /\ profile[j].name = profile[i].name => j = i
        /\ LowerCase => reader[Len(reader)] = NoBlock
        /\ reader[Len(reader)] = NoBlock =>
               /\ \E i \in Outside : profile[i] = Other("remote")
               /\ Roots(Trusted) # {} /\ \A a \in Trusted : Verifies(a, Trusted)
=============================================================================
