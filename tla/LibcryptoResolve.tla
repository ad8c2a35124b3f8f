-------------------------- MODULE LibcryptoResolve --------------------------
(***************************************************************************)
(* Which libcrypto the library runs on, unix/openssl_platform_init.c: the  *)
(* functions for HMAC and digests are those bound by the linker, or are    *)
(* looked up in the process and then in shared libraries, version after    *)
(* version, and are kept in two tables.                                    *)
(*                                                                         *)
(* An environment e is a record:                                           *)
(*   build    whose headers the library was built with; 1.1.1 and later    *)
(*            versions of OpenSSL do not differ here                       *)
(*   linked   the objects of that library that were linked: hmac, digest   *)
(*   process  the libraries in the process, in the order of the search     *)
(*   so       per file name: what dlopen finds, a list of at most one      *)
(* A module handle is a list of libraries.  A function pointer is the      *)
(* library it points into and where that was found.                        *)
(***************************************************************************)
EXTENDS Integers, Sequences

Pointer(at, kind) == [at |-> at, kind |-> kind]
Null == Pointer("nowhere", "none")
Own == Pointer("aws-c-cal", "none")    \* a stub or shim of the library itself

HmacCommon == {"HMAC_Update", "HMAC_Final", "HMAC_Init_ex"}
Hmac102 == HmacCommon \cup {"HMAC_CTX_init", "HMAC_CTX_cleanup"}
Hmac111 == HmacCommon \cup {"HMAC_CTX_new", "HMAC_CTX_free"}
DigestCommon == {"EVP_DigestInit_ex", "EVP_DigestUpdate", "EVP_DigestFinal_ex"}
Digest102 == DigestCommon \cup {"EVP_MD_CTX_create", "EVP_MD_CTX_destroy"}
Digest111 == DigestCommon \cup {"EVP_MD_CTX_new", "EVP_MD_CTX_free"}

\* What a library exports.
Symbols(kind) ==
  CASE kind = "1.0.2" -> Hmac102 \cup Digest102
    [] kind \in {"1.1.0", "1.1.1"} -> Hmac111 \cup Digest111 \cup {"OpenSSL_version_num"}
    [] kind \in {"LC", "BORINGSSL"} ->
         Hmac102 \cup Hmac111 \cup Digest102 \cup Digest111 \cup {"OpenSSL_version_num"}

\* Weak references: NULL unless the object the symbol is in was linked.
Weak(e, name) ==
  IF /\ name \in Symbols(e.build)
     /\ \/ "hmac" \in e.linked /\ name \in Hmac102 \cup Hmac111
        \/ "digest" \in e.linked /\ name \in Digest102 \cup Digest111
  THEN Pointer("linked", e.build) ELSE Null

\* The first library of the module that has the symbol.
dlsym(module, name) ==
  LET has == {i \in DOMAIN module : name \in Symbols(module[i].kind)}
  IN  IF has = {} THEN Null ELSE module[CHOOSE i \in has : \A j \in has : i <= j]

-----------------------------------------------------------------------------
(* The resolvers: each binds the functions of one interface, and fills in   *)
(* its table if it finds the function that makes a context.                 *)

\* Mutant, wrong on purpose: it breaks a property.
Bind_each(e, module, names) ==
  [name \in names |-> IF Weak(e, name) # Null THEN Weak(e, name) ELSE dlsym(module, name)]

\* The linked functions if all of them are there, otherwise none of them.
Bind(e, module, names) ==
  IF \A name \in names : Weak(e, name) # Null THEN [name \in names |-> Weak(e, name)]
  ELSE [name \in names |-> dlsym(module, name)]

\* version is history: the interface the table was filled in for.
NoHmac == [version |-> "none", new |-> Null, free |-> Null, init |-> Null, clean_up |-> Null,
           update |-> Null, final |-> Null, init_ex |-> Null, impl |-> Null]
NoDigest == [version |-> "none", new |-> Null, free |-> Null, init_ex |-> Null,
             update |-> Null, final_ex |-> Null]

OpensslBuild(e) == e.build \in {"1.0.2", "1.1.1"}

\* Each takes the table and returns whether it was filled in, and the table.
s_resolve_hmac_102(e, module, table) ==
  LET fn == Bind(e, module, Hmac102) IN
  IF OpensslBuild(e) /\ fn["HMAC_CTX_init"] # Null
  THEN [ok |-> TRUE,
        table |-> [version |-> "1.0.2", new |-> Own, free |-> Own,
                   init |-> fn["HMAC_CTX_init"], clean_up |-> fn["HMAC_CTX_cleanup"],
                   update |-> fn["HMAC_Update"], final |-> fn["HMAC_Final"],
                   init_ex |-> fn["HMAC_Init_ex"], impl |-> table.impl]]
  ELSE [ok |-> FALSE, table |-> table]

\* new_fn and free_fn of the library; init_ex_fn is a wrapper of impl.init_ex_fn.
NewStyle(version, fn, init, clean_up) ==
  [version |-> version, new |-> fn["HMAC_CTX_new"], free |-> fn["HMAC_CTX_free"],
   init |-> init, clean_up |-> clean_up,
   update |-> fn["HMAC_Update"], final |-> fn["HMAC_Final"],
   init_ex |-> Own, impl |-> fn["HMAC_Init_ex"]]

s_resolve_hmac_111(e, module, table) ==
  LET fn == Bind(e, module, Hmac111) IN
  IF OpensslBuild(e) /\ fn["HMAC_CTX_new"] # Null
  THEN [ok |-> TRUE, table |-> NewStyle("1.1.1", fn, Own, Own)]
  ELSE [ok |-> FALSE, table |-> table]

\* init_fn and clean_up_fn are the linked ones or NULL: they are not looked up.
s_resolve_hmac_lc(e, module, table) ==
  LET fn == Bind(e, module, Hmac111) IN
  IF e.build = "LC" /\ fn["HMAC_CTX_new"] # Null
  THEN [ok |-> TRUE,
        table |-> NewStyle("LC", fn, Weak(e, "HMAC_CTX_init"), Weak(e, "HMAC_CTX_cleanup"))]
  ELSE [ok |-> FALSE, table |-> table]

s_resolve_hmac_boringssl(e, module, table) ==
  LET fn == Bind(e, module, Hmac111) IN
  IF e.build = "BORINGSSL" /\ fn["HMAC_CTX_new"] # Null
  THEN [ok |-> TRUE, table |-> NewStyle("BORINGSSL", fn, Own, Own)]
  ELSE [ok |-> FALSE, table |-> table]

s_resolve_libcrypto_hmac(e, version, module, table) ==
  CASE version = "LC" -> s_resolve_hmac_lc(e, module, table)
    [] version = "1.1.1" -> s_resolve_hmac_111(e, module, table)
    [] version = "1.0.2" -> s_resolve_hmac_102(e, module, table)
    [] version = "BORINGSSL" -> s_resolve_hmac_boringssl(e, module, table)

DigestTable(version, fn, new, free) ==
  [version |-> version, new |-> fn[new], free |-> fn[free],
   init_ex |-> fn["EVP_DigestInit_ex"], update |-> fn["EVP_DigestUpdate"],
   final_ex |-> fn["EVP_DigestFinal_ex"]]

s_resolve_md_102(e, module, table) ==
  LET fn == Bind(e, module, Digest102) IN
  IF e.build # "LC" /\ fn["EVP_MD_CTX_create"] # Null
  THEN [ok |-> TRUE,
        table |-> DigestTable("1.0.2", fn, "EVP_MD_CTX_create", "EVP_MD_CTX_destroy")]
  ELSE [ok |-> FALSE, table |-> table]

\* The same function for 1.1.1, BoringSSL and, in a build of its own, AWS-LC.
NewStyleDigest(e, version, module, table) ==
  LET fn == Bind(e, module, Digest111) IN
  IF fn["EVP_MD_CTX_new"] # Null
  THEN [ok |-> TRUE, table |-> DigestTable(version, fn, "EVP_MD_CTX_new", "EVP_MD_CTX_free")]
  ELSE [ok |-> FALSE, table |-> table]

s_resolve_libcrypto_md(e, version, module, table) ==
  CASE version = "1.0.2" -> s_resolve_md_102(e, module, table)
    [] version # "1.0.2" /\ (version = "LC" <=> e.build = "LC") ->
         NewStyleDigest(e, version, module, table)
    [] OTHER -> [ok |-> FALSE, table |-> table]

-----------------------------------------------------------------------------
(* The search.  Its state: the version found, and the two tables, which a   *)
(* version that is found in part leaves half filled in.                     *)

Nothing == [version |-> "none", hmac |-> NoHmac, md |-> NoDigest]

\* A step of the search: nothing is left to do once a version was found.
s_resolve_libcrypto_symbols(e, t, version, module) ==
  IF t.version # "none" THEN t
  ELSE LET hmac == s_resolve_libcrypto_hmac(e, version, module, t.hmac)
           md == s_resolve_libcrypto_md(e, version, module, t.md)
       IN  CASE ~hmac.ok -> t
             [] hmac.ok /\ ~md.ok -> [t EXCEPT !.hmac = hmac.table]
             [] hmac.ok /\ md.ok -> [version |-> version, hmac |-> hmac.table, md |-> md.table]

\* libcrypto.so is asked for its version; 1.0.2 has no function that tells.
ByVersion(e, t, module) ==
  LET lib == dlsym(module, "OpenSSL_version_num") IN
  CASE lib = Null -> t
    [] lib # Null /\ lib.kind # "1.1.0" ->
         s_resolve_libcrypto_symbols(e, s_resolve_libcrypto_symbols(e, t, "LC", module),
                                     "1.1.1", module)
    [] OTHER -> s_resolve_libcrypto_symbols(e, t, "1.0.2", module)

\* A file that is not there is an empty module: nothing is found in it.  But linked
\* functions would be taken with it, so a file that is not there is not searched.
InFile(e, t, version, file) ==
  IF e.so[file] = <<>> THEN t ELSE s_resolve_libcrypto_symbols(e, t, version, e.so[file])

s_resolve_libcrypto_lib(e, t) ==
  LET t102 == InFile(e, t, "1.0.2", "libcrypto.so.1.0.0")
      t111 == InFile(e, t102, "1.1.1", "libcrypto.so.1.1")
  IN  IF t111.version # "none" THEN t111 ELSE ByVersion(e, t111, e.so["libcrypto.so"])

\* t: the tables as an earlier initialisation left them.
s_resolve_libcrypto(e, t) ==
  LET start == [t EXCEPT !.version = "none"]
      lc == s_resolve_libcrypto_symbols(e, start, "LC", e.process)
      boringssl == s_resolve_libcrypto_symbols(e, lc, "BORINGSSL", e.process)
      v102 == s_resolve_libcrypto_symbols(e, boringssl, "1.0.2", e.process)
      v111 == s_resolve_libcrypto_symbols(e, v102, "1.1.1", e.process)
  IN  IF v111.version # "none" THEN v111 ELSE s_resolve_libcrypto_lib(e, v111)

-----------------------------------------------------------------------------
(* What the tables are to be, said without the search.                      *)

\* What a table points to, outside of the library.  Without the wrapper nobody reads impl.
Libraries(table) ==
  {table[f] : f \in DOMAIN table \ ({"version"} \cup (IF table.init_ex = Own THEN {} ELSE {"impl"}))}
    \ {Null, Own}

OneLibrary(table) == \E p \in Libraries(table) : Libraries(table) = {p}

\* Of what opensslcrypto_hmac.c and opensslcrypto_hash.c call, nothing is NULL.
CompleteHmac(table) ==
  \A f \in {"new", "free", "init", "update", "final", "init_ex"} : table[f] # Null
CompleteDigest(table) ==
  \A f \in {"new", "free", "init_ex", "update", "final_ex"} : table[f] # Null

\* A library that has all that a build needs.
Serves(build, kind) ==
  CASE build \in {"1.0.2", "1.1.1"} -> TRUE
    [] build \in {"LC", "BORINGSSL"} -> {"HMAC_CTX_new", "EVP_MD_CTX_new"} \subseteq Symbols(kind)

\* Linked as a whole, in the process, or in the file of its name.
Available(e) ==
  \/ e.linked = {"hmac", "digest"}
  \/ \E i \in DOMAIN e.process : Serves(e.build, e.process[i].kind)
  \/ OpensslBuild(e) /\ (e.so["libcrypto.so.1.0.0"] # <<>> \/ e.so["libcrypto.so.1.1"] # <<>>)
  \/ /\ e.build # "BORINGSSL"
     /\ \E i \in DOMAIN e.so["libcrypto.so"] : e.so["libcrypto.so"][i].kind \notin {"1.0.2", "1.1.0"}
=============================================================================
