------------------------------ MODULE Languages ------------------------------
(***************************************************************************)
(* What the frontend takes a file for: the scanner's registry of languages  *)
(* and its rules (kernel/SASTEngine.ts), the language servers               *)
(* (kernel/MonacoLSPIntegration.ts) and the editor's table                  *)
(* (lib/monaco/MonacoEditor.tsx), which have to agree.  An extension is     *)
(* without its dot.                                                         *)
(*                                                                         *)
(* The scanner finds no files yet, and its queries nothing in them: scan()  *)
(* changes no state, and only which rules it would try is modelled.         *)
(***************************************************************************)
EXTENDS Naturals, Sequences, FiniteSets, SequencesExt

Lang(id, extensions) == [id |-> id, extensions |-> extensions]

\* LANGUAGE_REGISTRY, in the order of its keys: those with a query of their
\* own, and those without.
QueriedLanguages ==
    <<Lang("typescript", {"ts", "tsx", "mts", "cts"}),
      Lang("javascript", {"js", "jsx", "mjs", "cjs"}),
      Lang("python", {"py", "pyw", "pyi"}),
      Lang("rust", {"rs"})>>

OtherLanguages ==
    <<Lang("go", {"go"}), Lang("java", {"java"}), Lang("c", {"c", "h"}),
      Lang("cpp", {"cpp", "cc", "cxx", "hpp", "h"}), Lang("csharp", {"cs"}),
      Lang("php", {"php", "phtml"}), Lang("ruby", {"rb"}), Lang("swift", {"swift"}),
      Lang("kotlin", {"kt", "kts"}), Lang("scala", {"scala"}),
      Lang("html", {"html", "htm", "xhtml"}), Lang("css", {"css", "scss", "sass", "less"}),
      Lang("json", {"json", "jsonc"})>>

LanguageRegistry == QueriedLanguages \o OtherLanguages

LanguageIds == {LanguageRegistry[i].id : i \in DOMAIN LanguageRegistry}
Extensions == UNION {LanguageRegistry[i].extensions : i \in DOMAIN LanguageRegistry}

Knowing(ext) == {i \in DOMAIN LanguageRegistry : ext \in LanguageRegistry[i].extensions}

\* detectLanguage: the first that has the extension, or none.
DetectLanguage(ext) ==
    {LanguageRegistry[i].id : i \in {j \in Knowing(ext) : \A k \in Knowing(ext) : j <= k}}
-----------------------------------------------------------------------------
(* The rules. *)

Web == {"typescript", "javascript"}
Backends == Web \union {"python", "go", "java", "csharp", "php", "ruby"}
BackendsAndRust == Backends \union {"rust"}

PatternRule(id, languages) ==
    [id |-> id, languages |-> languages, mode |-> "pattern", has |-> {"pattern"}]

InjectionRules ==
    <<PatternRule("xss-inner-html", Web),
      PatternRule("xss-document-write", Web),
      PatternRule("sql-injection-concat", Backends),
      PatternRule("sql-injection-template", Web),
      PatternRule("cmd-injection-shell", BackendsAndRust),
      PatternRule("path-traversal", BackendsAndRust),
      PatternRule("hardcoded-secret", BackendsAndRust)>>

OtherRules ==
    <<PatternRule("weak-crypto-md5", BackendsAndRust),
      PatternRule("weak-crypto-sha1", BackendsAndRust),
      PatternRule("insecure-random", Web),
      PatternRule("prototype-pollution", Web),
      PatternRule("ssrf-fetch", BackendsAndRust),
      PatternRule("open-redirect", BackendsAndRust),
      PatternRule("insecure-deserialization", Backends),
      PatternRule("xxe-xml", Backends)>>

BuiltinSastRules == ToSet(InjectionRules \o OtherRules)

\* scanFile: the rules of the language, of which those are tried that have what
\* their mode needs.
TriedOn(language) == {r \in BuiltinSastRules : language \in r.languages /\ r.mode \in r.has}
-----------------------------------------------------------------------------
(* The language servers, and the editor. *)

ScriptServers ==
    <<Lang("typescript", {"ts", "tsx", "mts", "cts"}),
      Lang("javascript", {"js", "jsx", "mjs", "cjs"}),
      Lang("python", {"py", "pyw", "pyi"}),
      Lang("rust", {"rs"})>>

OtherServers ==
    <<Lang("go", {"go"}), Lang("cpp", {"cpp", "cc", "cxx", "hpp", "h"}), Lang("c", {"c", "h"}),
      Lang("csharp", {"cs"}), Lang("java", {"java"}), Lang("php", {"php", "phtml"}),
      Lang("ruby", {"rb"}), Lang("html", {"html", "htm", "xhtml"}),
      Lang("css", {"css", "scss", "sass", "less"}), Lang("json", {"json", "jsonc"})>>

BuiltinLspServers == ToSet(ScriptServers \o OtherServers)

\* languageByExtension.
EditorLanguage(ext) ==
    CASE ext \in {"ts", "tsx"} -> "typescript"
      [] ext \in {"js", "jsx", "mjs", "cjs"} -> "javascript"
      [] ext \in {"json", "css", "scss", "less", "go", "c", "cpp"} -> ext
      [] ext \in {"html", "htm"} -> "html"
      [] ext = "rs" -> "rust"
      [] ext = "py" -> "python"
      [] ext = "h" -> "c"
      [] ext = "hpp" -> "cpp"
      [] OTHER -> "plaintext"
      \* md, sh, yml, yaml and toml: languages nobody else knows.

\* languageForFile: the file says it itself, unless it says nothing.
LanguageForFile(language, ext) ==
    IF language \notin {"", "plaintext"} THEN language ELSE EditorLanguage(ext)

\* What a file with the extension may say: nothing, or what the tab bar says of
\* the .ts files it makes.
SaidLanguages(ext) == {"", "plaintext"} \union (IF ext = "ts" THEN {"typescript"} ELSE {})
-----------------------------------------------------------------------------
\* Every language a rule is for has an extension the scanner takes for it, and
\* a rule that is tried: a language that shares extensions with an earlier one
\* has others.
RulesAreTried ==
    \A r \in BuiltinSastRules : \A l \in r.languages :
        /\ r \in TriedOn(l)
        /\ \E ext \in Extensions : DetectLanguage(ext) = {l}

\* The scanner and the editor take a file for the same language, whenever the
\* scanner knows the editor's.
ScannerAgreesWithEditor ==
    \A ext \in Extensions :
        EditorLanguage(ext) \in LanguageIds => DetectLanguage(ext) = {EditorLanguage(ext)}

\* A file is given a language by its extension, or, made by the tab bar, says
\* its language itself: the server of that language, if there is one, serves the
\* file's extension; and a language the table knows is not lost for plaintext.
ServerServesFile ==
    \A ext \in Extensions, s \in BuiltinLspServers :
        /\ \A language \in SaidLanguages(ext) : LanguageForFile(language, ext) = s.id => ext \in s.extensions
        /\ EditorLanguage(ext) # "plaintext" => LanguageForFile("plaintext", ext) # "plaintext"

\* The tables of the scanner, of the editor and of the language servers, kept in
\* three files, name one language for a file.
LanguagesAgree == RulesAreTried /\ ScannerAgreesWithEditor /\ ServerServesFile
=============================================================================
