------------------------------ MODULE LmCache ------------------------------
(***************************************************************************)
(* The verification of a warmed cache of language-model data against its   *)
(* manifest (lm_cache.py), while somebody warms it: opens, stats and reads *)
(* of the verifier fall between the writes.                                *)
(*                                                                         *)
(* A payload file is a sequence of cells, each as the manifest's digest    *)
(* wants it or not.  A warmer writes a file from its beginning, right as   *)
(* far as the manifest reaches and anything beyond, may cut it to nothing  *)
(* and begin again, and may put any other file in its place; what was      *)
(* there before may hold anything.  The payload root stays where it is.    *)
(***************************************************************************)
EXTENDS Naturals, Sequences

CONSTANTS
  Artifacts,  \* number of artifacts of the manifest
  SizeBytes,  \* size_bytes of each
  Longest,    \* bound on the length of a file
  NoFile, NotRegular,  \* what a name may lead to instead
  MaxWrites   \* bound on the steps of the warmer

ASSUME LmCacheAssumption ==
  /\ Artifacts \in Nat /\ SizeBytes \in Nat /\ Longest \in Nat
  /\ NoFile \notin Seq({"right", "wrong"}) /\ NotRegular \notin Seq({"right", "wrong"})
  /\ NoFile # NotRegular

VARIABLES
  cache,     \* what the name of an artifact leads to
  writes,
  verifier,  \* the check
  held       \* history: all that was true of an artifact since the check began

lmCacheVars == <<cache, writes, verifier, held>>

Cells == {"right", "wrong"}
Intact == [i \in 1 .. SizeBytes |-> "right"]
Files == UNION {[1 .. n -> Cells] : n \in 0 .. Longest}

\* What a finding may truly say of an artifact, or a report by not naming it.
Truths(content) ==
  IF content = NoFile THEN {"missing"}
  ELSE IF content = NotRegular THEN {"not_regular_file"}
  ELSE {IF Len(content) = SizeBytes THEN "sized" ELSE "size_mismatch",
        IF content = Intact THEN "whole" ELSE "checksum_mismatch"}

NoVerifier == [step |-> "idle", deep |-> FALSE, at |-> 0, kept |-> <<>>,
               read |-> <<>>, verdicts |-> [a \in 1 .. Artifacts |-> "none"]]

LmCacheInit ==
  /\ cache \in [1 .. Artifacts -> {NoFile, NotRegular} \cup Files]
  /\ writes = 0
  /\ verifier = NoVerifier
  /\ held = [a \in 1 .. Artifacts |-> Truths(cache[a])]

----------------------------------------------------------------------------
(* the warmer *)

Holds(a, content) ==
  /\ writes < MaxWrites /\ writes' = writes + 1
  /\ cache' = [cache EXCEPT ![a] = content]
  /\ held' = [held EXCEPT ![a] = @ \cup Truths(content)]

\* In place: whoever has the file open sees it.
AppendCell(a, cell) ==
  /\ cache[a] \notin {NoFile, NotRegular} /\ Len(cache[a]) < Longest
  /\ Len(cache[a]) < SizeBytes => cell = "right"
  /\ Holds(a, Append(cache[a], cell))
  /\ UNCHANGED verifier
CutFile(a) ==
  /\ cache[a] \notin {NoFile, NotRegular}
  /\ Holds(a, <<>>)
  /\ UNCHANGED verifier
\* Under the name: whoever has the file open keeps the one there was.
ReplaceFile(a, content) ==
  /\ content # cache[a]
  /\ Holds(a, content)
  /\ verifier' = IF verifier.at = a /\ verifier.step \in {"opened", "reading"}
                      /\ verifier.kept = <<>>
                   THEN [verifier EXCEPT !.kept = <<cache[a]>>] ELSE verifier

----------------------------------------------------------------------------
(* the verifier *)

Proceeds(v) == verifier' = v /\ UNCHANGED <<cache, writes, held>>

\* validate_lm_cache: a manifest that is not there, not valid or not of this
\* cache is an error, no report.
StartVerification(deep, found) ==
  /\ verifier.step \in {"idle", "done", "raised"}
  /\ verifier' = [NoVerifier EXCEPT !.deep = deep,
                    !.step = IF found = "valid" THEN "root" ELSE "raised"]
  /\ held' = [a \in 1 .. Artifacts |-> Truths(cache[a])]
  /\ UNCHANGED <<cache, writes>>

OpenRoot ==
  /\ verifier.step = "root"
  /\ Proceeds([verifier EXCEPT !.step = "artifact", !.at = 1])
RootUnsafe ==
  /\ verifier.step = "root"
  /\ Proceeds([verifier EXCEPT !.step = "raised"])
\* A cache that was never warmed has no root: that is a report, every artifact
\* is missing.
RootMissing ==
  /\ verifier.step = "root"
  /\ \A a \in 1 .. Artifacts : cache[a] = NoFile
  /\ Proceeds([verifier EXCEPT !.step = "done",
                               !.verdicts = [a \in 1 .. Artifacts |-> "missing"]])

Inspected(verdict) ==
  Proceeds([verifier EXCEPT !.step = "artifact", !.at = @ + 1, !.kept = <<>>,
                            !.read = <<>>, !.verdicts[verifier.at] = verdict])
Unreadable ==
  /\ verifier.step \in {"artifact", "opened", "reading"} /\ verifier.at <= Artifacts
  /\ Inspected("unreadable")
OpenArtifact ==
  /\ verifier.step = "artifact" /\ verifier.at <= Artifacts
  /\ IF cache[verifier.at] = NoFile THEN Inspected("missing")
     ELSE Proceeds([verifier EXCEPT !.step = "opened"])

\* Mutant of Opened: every access goes by the name again.
ByName == IF cache[verifier.at] = NoFile THEN <<>> ELSE cache[verifier.at]
\* The file behind the descriptor.
Opened == IF verifier.kept = <<>> THEN cache[verifier.at] ELSE verifier.kept[1]

StatArtifact ==
  /\ verifier.step = "opened"
  /\ CASE Opened = NotRegular -> Inspected("not_regular_file")
       [] Opened # NotRegular /\ Len(Opened) # SizeBytes -> Inspected("size_mismatch")
       [] Opened # NotRegular /\ Len(Opened) = SizeBytes ->
            IF verifier.deep THEN Proceeds([verifier EXCEPT !.step = "reading"])
            ELSE Inspected("fits")
ReadChunk ==
  /\ verifier.step = "reading" /\ Len(verifier.read) < Len(Opened)
  /\ Proceeds([verifier EXCEPT !.read = Append(@, Opened[Len(@) + 1])])
\* What was hashed decides, not what was seen before.
JudgeArtifact ==
  /\ verifier.step = "reading" /\ Len(verifier.read) >= Len(Opened)
  /\ Inspected(IF Len(verifier.read) # SizeBytes THEN "size_mismatch"
               ELSE IF verifier.read # Intact THEN "checksum_mismatch" ELSE "fits")

ReportFindings ==
  /\ verifier.step = "artifact" /\ verifier.at > Artifacts
  /\ Proceeds([verifier EXCEPT !.step = "done"])

LmCacheNext ==
  \/ \E a \in 1 .. Artifacts : \/ \E cell \in Cells : AppendCell(a, cell)
                               \/ CutFile(a)
                               \/ \E content \in {NoFile, NotRegular} \cup Files :
                                    ReplaceFile(a, content)
  \/ \E deep \in BOOLEAN, found \in {"valid", "refused"} :
       StartVerification(deep, found)
  \/ OpenRoot \/ RootUnsafe \/ RootMissing \/ Unreadable \/ OpenArtifact
  \/ StatArtifact \/ ReadChunk \/ JudgeArtifact \/ ReportFindings

LmCacheSpec == LmCacheInit /\ [][LmCacheNext]_lmCacheVars

----------------------------------------------------------------------------

\* A verdict is of a moment of the check, although a file was written between the
\* stat and the reads, or exchanged under an open descriptor: the artifact was as
\* its finding says; one without a finding was whole if checksums were verified,
\* and of its size if they were not (lm_cache.py:425-428).
VerdictsWereTrue ==
  \A a \in 1 .. Artifacts :
    LET verdict == verifier.verdicts[a] IN
    \/ verdict \in {"none", "unreadable"} \cup held[a]
    \/ verdict = "fits" /\ (IF verifier.deep THEN "whole" ELSE "sized") \in held[a]
=============================================================================
