-------------------------------- MODULE Mmgir --------------------------------
(* The program mmgir: main() of tools/mmgir/main.cc, class GirSearch and the  *)
(* functions that load repositories of parse_gir.cc.                          *)
(*                                                                            *)
(* The first input file is read tag by tag (GirParser). Once it has been      *)
(* parsed without errors its contents are those of a member of Worlds with    *)
(* the same objects that lack a field, which also has the --additional-gir    *)
(* files and the files of the search directories. A repository is             *)
(* [namespaces, includes, id_prefixes, errors]; a version that is absent is   *)
(* "".                                                                        *)
EXTENDS GirParser, GenDefs

CONSTANTS
    Worlds,       \* [inputs, supporting: sequences, dir: a set of repositories, stored]
    MemberSets,   \* the values of the members of an enumeration and a bitfield
    CNames        \* C types of objects

Repositories == UNION {ToSet(w.inputs) \cup ToSet(w.supporting) \cup w.dir : w \in Worlds}
NamespacesOf(repos) == UNION {ToSet(repo.namespaces) : repo \in repos}
IncludesOf(repos) == UNION {ToSet(repo.includes) : repo \in repos}

(* There is an input file. A file has a sequence of namespaces, one of        *)
(* includes and one of prefixes, and a directory finitely many files; a       *)
(* namespace has a sequence of definitions, a type is a sequence of levels,   *)
(* and names are pairs of strings.                                            *)
ASSUME WorldsAssumption ==
    /\ \A w \in Worlds : /\ w.inputs \in Seq(Repositories) \ {<<>>}
                         /\ w.supporting \in Seq(Repositories)
                         /\ IsFiniteSet(w.dir)
    /\ \A repo \in Repositories : /\ repo.namespaces \in Seq(NamespacesOf(Repositories))
                                  /\ repo.includes \in Seq(IncludesOf(Repositories))
                                  /\ repo.id_prefixes \in Seq(ToSet(repo.id_prefixes))
                                  /\ \A p \in ToSet(repo.id_prefixes) : p \in Seq(ToSet(p))
    /\ \A ns \in NamespacesOf(Repositories) :
          /\ ns.defs \in Seq(ToSet(ns.defs))
          /\ \A s \in ns.sites : /\ s.type \in Seq(ToSet(s.type))
                                /\ \A i \in DOMAIN s.type :
                                      s.type[i].name \in [ns : STRING, id : STRING]

\* The value of a flag is a sign and a number, a C name a sequence of letters.
ASSUME OutputAssumption ==
    /\ \A members \in MemberSets : \A v \in members :
          v.negative \in BOOLEAN /\ v.magnitude \in Nat
    /\ \A c \in CNames : c \in Seq(ToSet(c))

VARIABLES phase,      \* where main() is
          world,
          next,       \* the next repository of the loop main() is in
          supporting, \* supporting_repos
          resolver,
          docs,       \* m_docs, in the order of the directory
          visited,    \* m_visited_includes
          queue,      \* m_queue
          missing,    \* missing_dependencies
          read,       \* indices of docs that have been parsed, in order
          found_errors,
          out,        \* the files that have been written
          exit_code   \* NULL while main() runs

mainVars == <<phase, world, next, supporting, resolver, docs, visited, queue, missing, read,
              found_errors, out, exit_code>>
vars == <<parserVars, mainVars>>

Phases == {"load", "register", "supporting", "includes", "search", "unknown", "enums",
           "functions", "signals", "vfuncs", "done", "terminated"}

TypeOK ==
    /\ ParserTypeOK
    /\ phase \in Phases
    /\ exit_code \in {NULL, 0, 1}
    /\ \A i \in DOMAIN read : read[i] \in DOMAIN docs
    /\ resolver.unknown \cap DOMAIN resolver.info = {}

NoWorld == [inputs |-> <<>>, supporting |-> <<>>, dir |-> {}, stored |-> {}]

Init ==
    /\ ParserInit
    /\ phase = "load"
    /\ world = NoWorld
    /\ next = 1
    /\ supporting = <<>>
    /\ resolver = EmptyResolver
    /\ docs = <<>>
    /\ visited = <<>>
    /\ queue = <<>>
    /\ missing = {}
    /\ read = <<>>
    /\ found_errors = FALSE
    /\ out = <<>>
    /\ exit_code = NULL

Return(code) == phase' = "done" /\ exit_code' = code

(* Names that the pieces of main() leave alone. *)
SearchVars == <<docs, visited, queue, missing, read, found_errors>>

-----------------------------------------------------------------------------
(* Loading.                                                                   *)

(* load_repository_from_file() of the inputs; GirParseError is caught. *)
load_inputs ==
    /\ phase = "load"
    /\ \/ /\ state = "failed"
          /\ Return(1)
          /\ UNCHANGED world
       \/ /\ state = "parsed"
          /\ \E w \in Worlds :
                /\ w.stored = stored
                /\ IF \E i \in DOMAIN w.inputs : w.inputs[i].errors
                   THEN Return(1) /\ UNCHANGED world
                   ELSE world' = w /\ phase' = "register" /\ UNCHANGED exit_code
    /\ UNCHANGED <<parserVars, next, supporting, resolver, SearchVars, out>>

(* The loop over input_repos. *)
register_inputs ==
    /\ phase = "register"
    /\ IF next <= Len(world.inputs)
       THEN /\ resolver' = register_repo_types(resolver, world.inputs[next])
            /\ next' = next + 1
            /\ UNCHANGED phase
       ELSE /\ phase' = "supporting"
            /\ next' = 1
            /\ UNCHANGED resolver
    /\ UNCHANGED <<parserVars, world, supporting, SearchVars, out, exit_code>>

(* load_supporting_repositories(): one file after the other. *)
load_supporting_repositories ==
    /\ phase = "supporting"
    /\ Len(supporting) < Len(world.supporting)
    /\ LET repo == world.supporting[Len(supporting) + 1] IN
       IF repo.errors
       THEN Return(1) /\ UNCHANGED <<supporting, resolver>>
       ELSE /\ supporting' = Append(supporting, repo)
            /\ resolver' = register_repo_types(resolver, repo)
            /\ UNCHANGED <<phase, exit_code>>
    /\ UNCHANGED <<parserVars, world, next, SearchVars, out>>

-----------------------------------------------------------------------------
(* GirSearch.                                                                 *)

combined_name(name, version) == <<name, version>>
Keys(repo) == {combined_name(repo.namespaces[i].name, repo.namespaces[i].version) :
                 i \in {j \in DOMAIN repo.namespaces : repo.namespaces[j].name # ""}}

(* load_gir_xml_files(): the key of a namespace with a version is its name    *)
(* and version, that of one without is its name, which no include asks for:   *)
(* add_includes() replaces a version that is absent by "". The first file     *)
(* that has a key keeps it.                                                   *)
Versioned(repo) == {k \in Keys(repo) : k[2] # ""}
m_namespace_to_doc(key) ==
    LET having == {i \in DOMAIN docs : key \in Versioned(docs[i])}
    IN IF having = {} THEN 0 ELSE CHOOSE i \in having : \A j \in having : i <= j

\* The mutant compares nothing.
ConflictsNever(v, name, version) == FALSE

(* mark_visited_namespace(): TRUE if the name is new; another version throws. *)
Conflicts(v, name, version) == name \in DOMAIN v /\ v[name] # version
mark_visited_namespace(v, name, version) ==
    [n \in DOMAIN v \cup {name} |-> IF n \in DOMAIN v THEN v[n] ELSE version]

(* add_includes(): the namespaces of the repository are marked, those without *)
(* a name left out, and its includes are queued. A name that occurs twice     *)
(* keeps its first version.                                                   *)
Named(repo) == {i \in DOMAIN repo.namespaces : repo.namespaces[i].name # ""}
VersionIn(repo, name) ==
    LET having == {i \in Named(repo) : repo.namespaces[i].name = name}
    IN repo.namespaces[CHOOSE i \in having : \A j \in having : i <= j].version
NamesMarked(v, repo) ==
    [n \in DOMAIN v \cup {repo.namespaces[i].name : i \in Named(repo)} |->
        IF n \in DOMAIN v THEN v[n] ELSE VersionIn(repo, n)]
NamesConflict(v, repo) ==
    \E i \in Named(repo) :
        LET ns == repo.namespaces[i]
        IN Conflicts(NamesMarked(v, repo), ns.name, ns.version)

\* The mutant forgets the includes of a file that has been found.
add_no_includes(v, repo) == [visited |-> NamesMarked(v, repo), queue |-> <<>>]
add_includes(v, repo) == [visited |-> NamesMarked(v, repo), queue |-> repo.includes]

(* search_for_included_namespaces(): only if some type is not known yet. *)
search_for_included_namespaces ==
    /\ phase = "supporting"
    /\ Len(supporting) = Len(world.supporting)
    /\ phase' = IF has_unknown_types(resolver) THEN "includes" ELSE "unknown"
    /\ UNCHANGED <<parserVars, world, next, supporting, resolver, SearchVars, out, exit_code>>

(* The loops over input_repos and supporting_repos; then load_gir_xml_files(), *)
(* in the order in which the directory lists its files.                       *)
search_begins ==
    /\ phase = "includes"
    /\ LET repos == world.inputs \o supporting
           added == add_includes(visited, repos[next])
       IN IF next <= Len(repos)
          THEN /\ IF NamesConflict(visited, repos[next])
                  THEN Return(1) /\ UNCHANGED <<next, visited, queue>>
                  ELSE /\ visited' = added.visited
                       /\ queue' = queue \o added.queue
                       /\ next' = next + 1
                       /\ UNCHANGED <<phase, exit_code>>
               /\ UNCHANGED docs
          ELSE /\ docs' \in SetToSeqs(world.dir)
               /\ phase' = "search"
               /\ UNCHANGED <<next, visited, queue, exit_code>>
    /\ UNCHANGED <<parserVars, world, supporting, resolver, missing, read, found_errors, out>>

(* One round of the loop of GirSearch::run(). A file that has errors is used  *)
(* all the same; the exception comes at the end.                              *)
run_visits(dependency) ==
    LET key == combined_name(dependency.name, dependency.version)
        doc == m_namespace_to_doc(key)
        seen == mark_visited_namespace(visited, dependency.name, dependency.version)
    IN IF doc = 0
       THEN /\ missing' = missing \cup {key}
            /\ visited' = seen
            /\ queue' = Tail(queue)
            /\ UNCHANGED <<supporting, resolver, read, found_errors, phase, exit_code>>
       ELSE /\ supporting' = Append(supporting, docs[doc])
            /\ found_errors' = (found_errors \/ docs[doc].errors)
            /\ resolver' = register_repo_types(resolver, docs[doc])
            /\ read' = Append(read, doc)
            /\ IF NamesConflict(seen, docs[doc])
               THEN Return(1) /\ UNCHANGED <<visited, queue>>
               ELSE /\ visited' = add_includes(seen, docs[doc]).visited
                    /\ queue' = Tail(queue) \o add_includes(seen, docs[doc]).queue
                    /\ UNCHANGED <<phase, exit_code>>
            /\ UNCHANGED missing

\* Namespaces that have been loaded or looked for before.
Skipped(dependency) == dependency.name \in DOMAIN visited

run ==
    /\ phase = "search"
    /\ queue # <<>>
    /\ LET dependency == Head(queue) IN
       IF Conflicts(visited, dependency.name, dependency.version)
       THEN /\ Return(1)
            /\ UNCHANGED <<supporting, resolver, visited, queue, missing, read, found_errors>>
       ELSE IF Skipped(dependency)
       THEN /\ queue' = Tail(queue)
            /\ UNCHANGED <<supporting, resolver, visited, missing, read, found_errors, phase,
                           exit_code>>
       ELSE run_visits(dependency)
    /\ UNCHANGED <<parserVars, world, next, docs, out>>

run_ends ==
    /\ phase = "search"
    /\ queue = <<>>
    /\ IF found_errors THEN Return(1) ELSE phase' = "unknown" /\ UNCHANGED exit_code
    /\ UNCHANGED <<parserVars, world, next, supporting, resolver, SearchVars, out>>

(* Types that are still unknown end the program. *)
check_unknown ==
    /\ phase = "unknown"
    /\ IF has_unknown_types(resolver) THEN Return(1)
       ELSE phase' = "enums" /\ UNCHANGED exit_code
    /\ UNCHANGED <<parserVars, world, next, supporting, resolver, SearchVars, out>>

-----------------------------------------------------------------------------
(* Output: one file after the other, for the input repositories only.         *)

InputNamespaces == UNION {{world.inputs[i].namespaces[j] :
                             j \in DOMAIN world.inputs[i].namespaces} :
                          i \in DOMAIN world.inputs}
\* "if (!ns.name) continue", not for enums and virtual methods.
NamedNamespaces == {ns \in InputNamespaces : ns.name # ""}
Write(file, defs) ==
    out' = [f \in DOMAIN out \cup {file} |-> IF f = file THEN defs ELSE out[f]]

(* The members of an enumeration and a bitfield and the C type of an object   *)
(* are chosen here.                                                           *)
write_enum_defs ==
    /\ phase = "enums"
    /\ \E values \in MemberSets :
          LET members == {[value |-> v] : v \in values}
          IN Write("enums", [members |-> members,
                             enum |-> generate_extended_enum_def("Kind", members),
                             flags |-> generate_extended_bitfield_def("Flags", members)])
    /\ phase' = "functions"
    /\ UNCHANGED <<parserVars, world, next, supporting, resolver, SearchVars, exit_code>>

(* An exception of the generator is not caught: std::terminate(). *)
write_function_defs ==
    /\ phase = "functions"
    /\ IF \E ns \in NamedNamespaces : FunctionDefsThrow(ns)
       THEN phase' = "terminated" /\ UNCHANGED out
       ELSE /\ \E c \in CNames :
                  Write("functions",
                        (UNION {generate_function_defs(ns) : ns \in NamedNamespaces}) \cup
                        {[form |-> "define-object", c_type |-> c, cast |-> gen_c_type_cast(c,
                            build_identifier_prefixes(world.inputs[1].id_prefixes, <<>>))]})
            /\ phase' = "signals"
    /\ UNCHANGED <<parserVars, world, next, supporting, resolver, SearchVars, exit_code>>

(* --signal-defs and --vfunc-defs are optional. *)
write_signal_defs ==
    /\ phase = "signals"
    /\ \/ Write("signals", UNION {generate_signal_defs(resolver, ns) : ns \in NamedNamespaces})
       \/ UNCHANGED out
    /\ phase' = "vfuncs"
    /\ UNCHANGED <<parserVars, world, next, supporting, resolver, SearchVars, exit_code>>

write_vfunc_defs ==
    /\ phase = "vfuncs"
    /\ \/ Write("vfuncs", UNION {generate_vfunc_defs(ns) : ns \in InputNamespaces})
       \/ UNCHANGED out
    /\ Return(0)
    /\ UNCHANGED <<parserVars, world, next, supporting, resolver, SearchVars>>

(* The process has ended, on its own or because it followed a null pointer. *)
ended ==
    /\ phase \in {"done", "terminated"} \/ resolver.crashed
    /\ UNCHANGED vars

Step ==
    \/ load_inputs
    \/ register_inputs
    \/ load_supporting_repositories
    \/ search_for_included_namespaces
    \/ search_begins
    \/ run
    \/ run_ends
    \/ check_unknown
    \/ write_enum_defs
    \/ write_function_defs
    \/ write_signal_defs
    \/ write_vfunc_defs

Next ==
    \/ phase = "load" /\ ParserNext /\ UNCHANGED mainVars
    \/ ~resolver.crashed /\ Step
    \/ ended

Spec == Init /\ [][Next]_vars

-----------------------------------------------------------------------------
(* Properties.                                                                *)

(* The repositories whose types have been registered. *)
Registered == CASE phase = "load" -> {}
                [] phase = "register" -> {world.inputs[i] : i \in 1 .. next - 1}
                [] OTHER -> ToSet(world.inputs) \cup ToSet(supporting)

(* The types that stop the program are exactly the ones that some callable or *)
(* property of a repository that has been read uses by name, and that no such *)
(* repository defines, in whatever order the files have been read: a type     *)
(* that is defined after its use is struck off the list, and one that is      *)
(* defined before is never put on it.                                         *)
UnknownExact ==
    /\ TypeOK
    /\ resolver.unknown =
          (UNION {{qualify_name(n, ns.name) : n \in NamesUsed(ns)} :
                  ns \in {m \in NamespacesOf(Registered) : m.name # ""}})
          \ (DOMAIN resolver.info \cup
             {[ns |-> "", id |-> b] : b \in DOMAIN s_builtin_type_to_c_type})

(* The search has been made (it marks every name), and without an exception.  *)
SearchEnded ==
    phase \in {"unknown", "enums", "functions", "signals", "vfuncs"} /\ DOMAIN visited # {}

(* No file of the search directories is read twice, though its namespaces may *)
(* be included from several files and in a circle: the search ends.           *)
NoFileTwice == \A i, j \in DOMAIN read : read[i] = read[j] => i = j

(* The same, and when the search has ended without an exception there is one  *)
(* version of every namespace: the one every file that has been read          *)
(* includes, or has.                                                          *)
VersionsAgree ==
    /\ NoFileTwice
    /\ SearchEnded =>
          \A repo \in Registered :
              /\ \A inc \in ToSet(repo.includes) : visited[inc.name] = inc.version
              /\ \A ns \in ToSet(repo.namespaces) : ns.name # "" => visited[ns.name] = ns.version

(* When the search has ended every include, with a version, of a file that    *)
(* has been read leads to a file that has been read too, if some file of the  *)
(* search directories has that namespace and version: nothing in the queue is *)
(* lost, and no file is overlooked. (An include without a version is looked   *)
(* for under the key "<name>-", and a namespace without a version never       *)
(* found: see the README.)                                                    *)
SearchComplete ==
    SearchEnded =>
        \A repo \in Registered : \A inc \in ToSet(repo.includes) :
            LET key == combined_name(inc.name, inc.version)
            IN key \in UNION {Versioned(r) : r \in world.dir}
               => key \in UNION {Keys(r) : r \in Registered}

(* A property definition that is printed has a prop-type, if the type of the  *)
(* property is given by name alone and is not one of the builtin types that   *)
(* no GParam is known for. (With a C type the name is not looked for, and the *)
(* definition may lack its type.)                                             *)
HasGParam(type) == type[1].name.ns = "" /\ type[1].name.id \in DOMAIN s_builtin_type_to_c_type
                   => type[1].name.id \in DOMAIN s_builtin_name_to_g_param
PropertiesTyped ==
    exit_code = 0 /\ "signals" \in DOMAIN out =>
        \A d \in out["signals"] :
            d.form = "define-property" /\ d.site.type[1].c_type = NONE
            /\ d.site.type[1].name.id # "" /\ HasGParam(d.site.type) => d.types # Unresolved

(* What is printed for a flag is its value, and a flag is left out only if it *)
(* does not fit: format_bitfield_members() against the arithmetic of the C    *)
(* compiler that reads "1 << n", hexadecimal and negative numbers. Members of *)
(* enumerations are all printed.                                              *)
ValueOf(printed) ==
    IF printed.form = "shift" THEN TwoTo[printed.n]
    ELSE IF printed.form = "hex" THEN printed.n
    ELSE 0 - printed.n   \* "negative"
Signed(v) == IF v.negative THEN 0 - v.magnitude ELSE v.magnitude
Fits(v) == Signed(v) \in 1 - TwoTo[IntBits - 1] .. TwoTo[IntBits] - 1
FlagsKeepValue ==
    "enums" \in DOMAIN out =>
        LET members == out["enums"].members IN
        /\ {<<d[1], ValueOf(d[2])>> : d \in out["enums"].flags} =
              {<<m, Signed(m.value)>> : m \in {n \in members : Fits(n.value)}}
        /\ {d[1] : d \in out["enums"].enum} = members

(* gen_defs.cc:97-98: "the prefix is the first word and the rest of the type  *)
(* starts from the second uppercase letter". So the name of the type macro is *)
(* made of the letters of the C type, each of them once: the prefix ends      *)
(* where the rest starts.                                                     *)
CastKeepsLetters ==
    "functions" \in DOMAIN out => \A d \in out["functions"] :
        d.form = "define-object" => d.cast.prefix \o d.cast.rest = d.c_type

(* What the definition files say of properties and flags is what the GIR      *)
(* files say of them.                                                         *)
OutputFaithful == PropertiesTyped /\ FlagsKeepValue
==============================================================================
