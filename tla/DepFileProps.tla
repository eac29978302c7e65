--------------------------- MODULE DepFileProps ---------------------------
(***************************************************************************)
(* What a dependency file promises to the build that reads it.             *)
(***************************************************************************)
EXTENDS DepFile, FiniteSets

SourceDependency == [kind : {"mln", "masm"}, path : DOMAIN Kind]

(* The variables have their types, and a call's index stays in the list.   *)
DepFileTypeOK ==
  /\ g_import_paths \in Seq(Paths)
  /\ source \in Sources \union {NoSource}
  /\ at \in {"caller", "paths", "open"}
  /\ result \in {"none", "ok", "failed"}
  /\ manifest.state \in {"absent", "open", "closed", "failed"}
  /\ manifest.torn \in BOOLEAN
  /\ dependencies \in Seq(SourceDependency)
  /\ manifest.entries \in Seq(SourceDependency)
  /\ stream \in Seq(SourceDependency)
  /\ error \in BOOLEAN
  /\ line \in Nat \ {0}
  /\ at = "open" => line <= Len(dependencies) + 1
  /\ i \in Nat \ {0}
  /\ at = "paths" => i <= Len(g_import_paths) + 1
  /\ at = "open" => i = Len(g_import_paths) + 1
  /\ calls \in 0 .. MaxCalls

(* Of the first n imports, those that mention their file first: no earlier *)
(* one has the same canonical path.                                        *)
FirstMentions(f, ps, n) ==
  {k \in 1 .. n : \A j \in 1 .. k - 1 : Canonical(f, ps[j]) # Canonical(f, ps[k])}

(* entries has one entry for each first mention among the first n imports, *)
(* in their order.                                                         *)
ListsInOrder(entries, f, ps, n) ==
  /\ Len(entries) = Cardinality(FirstMentions(f, ps, n))
  /\ \A k \in FirstMentions(f, ps, n) :
       entries[Cardinality(FirstMentions(f, ps, k))] = Dependency(f, ps[k])

(* Every one of the entries is a first mention's among them, and they      *)
(* stand in the order of the mentions; some may be missing.                *)
ListsSomeInOrder(entries, f, ps, n) ==
  LET mentions == FirstMentions(f, ps, n)
  IN  /\ \A j \in DOMAIN entries : \E k \in mentions : entries[j] = Dependency(f, ps[k])
      /\ \A j, l \in DOMAIN entries : \A k, m \in mentions :
           j < l /\ entries[j] = Dependency(f, ps[k]) /\ entries[l] = Dependency(f, ps[m])
             => k < m

(* The dependency file of the file assembled last, when its writing is     *)
(* reported to have succeeded, holds only its imports, resolved from its   *)
(* directory, each at most once and in the order of first mention,         *)
(* whatever was assembled or written before it; and it holds all of them,  *)
(* none cut short, when no write has failed.  A write that fails in        *)
(* fprintf is reported by nobody: fclose may succeed after it.  For a file *)
(* without a token nothing is promised.                                    *)
ManifestNamesImports ==
  result = "ok" /\ last.source = source /\ ~last.empty
    => /\ ListsSomeInOrder(manifest.entries, source, last.imports, Len(last.imports))
       /\ ~error =>
            /\ ListsInOrder(manifest.entries, source, last.imports, Len(last.imports))
            /\ ~manifest.torn

(* No two entries of the file name the same path, and every entry is the   *)
(* canonical path of an import the parser has recorded, of a kind that the *)
(* build knows and that fits a line of the file.                           *)
EntriesDistinct ==
  \A j, k \in DOMAIN dependencies :
    dependencies[j].path = dependencies[k].path => j = k

EntriesAreImports ==
  at # "caller" =>
    {dependencies[k].path : k \in DOMAIN dependencies}
      = {Canonical(source, g_import_paths[n]) : n \in 1 .. i - 1}

EntriesAccepted ==
  at # "caller" => \A n \in 1 .. i - 1 : Accepted(source, g_import_paths[n])

OneEntryPerDependency == EntriesDistinct /\ EntriesAreImports /\ EntriesAccepted

(* The dependency file that was there is emptied only when every import of *)
(* the list has been resolved and accepted: a bad import leaves it alone.  *)
FailureKeepsManifest ==
  [][manifest' # manifest =>
       \A n \in DOMAIN g_import_paths : Accepted(source, g_import_paths[n])]_vars

(* A call ends, and with it the time in which the file is neither the old  *)
(* one nor the new.                                                        *)
CallsReturn == at # "caller" ~> at = "caller"
===========================================================================
