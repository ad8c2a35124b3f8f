-------------------------- MODULE CalLibraryProofs --------------------------
(***************************************************************************)
(* The locks of OpenSSL 1.0.2 work, a clean-up leaves nothing behind, and  *)
(* the libcrypto that is found serves: for any number of locks, workers,   *)
(* initialisations and clean-ups, in any environment and with any use the  *)
(* application makes of the callbacks.                                     *)
(*                                                                         *)
(* First what LibcryptoResolve computes, then the invariants of the state. *)
(***************************************************************************)
EXTENDS CalLibrary, TLAPS

-----------------------------------------------------------------------------
(* Which libcrypto is found.                                                *)

\* The kinds of libraries, and where one is found.
Kind == {"1.0.2", "1.1.0", "1.1.1", "LC", "BORINGSSL"}
File == {"libcrypto.so.1.0.0", "libcrypto.so.1.1", "libcrypto.so"}
Library == {Pointer(at, kind) : at \in File \cup {"process"}, kind \in Kind}

\* A module handle has at most two libraries, as Environment says.
IsModule(m) ==
  m = <<>> \/ (\E p \in Library : m = <<p>>) \/ (\E p, q \in Library : m = <<p, q>>)
In(m) == {m[n] : n \in DOMAIN m}
Single(m) == \A p, q \in In(m) : p = q

IsEnvironment(e) ==
  /\ e.build \in Kind \ {"1.1.0"} /\ e.linked \in SUBSET {"hmac", "digest"}
  /\ IsModule(e.process)
  /\ \A f \in File : e.so[f] = <<>> \/ \E p \in Library : e.so[f] = <<p>>
  /\ \A n \in DOMAIN e.so["libcrypto.so.1.0.0"] : e.so["libcrypto.so.1.0.0"][n].kind = "1.0.2"
  /\ \A n \in DOMAIN e.so["libcrypto.so.1.1"] : e.so["libcrypto.so.1.1"][n].kind = "1.1.1"

Linked(e) == Pointer("linked", e.build)

\* A library is not NULL, and not the library's own code.
LEMMA LibraryIsReal ==
  ASSUME NEW p \in Library
  PROVE  p # Null /\ p # Own /\ p.kind \in Kind /\ p.at # "linked"
BY DEF Library, Pointer, Null, Own, File

\* What is in a module is a library, and there are at most two.
LEMMA ModuleOf ==
  ASSUME NEW m, IsModule(m)
  PROVE  In(m) \subseteq Library /\ DOMAIN m \subseteq {1, 2} /\ \A n \in DOMAIN m : m[n] \in In(m)
BY DEF IsModule, In

\* dlsym gives a library of the module that has the symbol, if there is one.
LEMMA DlsymFinds ==
  ASSUME NEW m, IsModule(m), NEW name
  PROVE  /\ \/ dlsym(m, name) = Null
            \/ dlsym(m, name) \in In(m) /\ name \in Symbols(dlsym(m, name).kind)
         /\ (\E p \in In(m) : name \in Symbols(p.kind)) => dlsym(m, name) # Null
<1> DEFINE has == {n \in DOMAIN m : name \in Symbols(m[n].kind)}
           first == CHOOSE n \in has : \A j \in has : n <= j
<1>1. dlsym(m, name) = IF has = {} THEN Null ELSE m[first]
  BY DEF dlsym
<1>2. has \subseteq {1, 2} /\ has \subseteq DOMAIN m
  BY ModuleOf
<1>3. ASSUME has # {} PROVE first \in has
  <2>1. \E n \in has : \A j \in has : n <= j
    BY <1>2, <1>3
  <2> QED
    BY <2>1
<1>4. CASE has = {}
  BY <1>1, <1>4 DEF In
<1>5. CASE has # {}
  <2>1. dlsym(m, name) = m[first] /\ first \in DOMAIN m /\ name \in Symbols(m[first].kind)
    BY <1>1, <1>3, <1>5
  <2>2. dlsym(m, name) \in In(m)
    BY <2>1, Zenon DEF In
  <2>3. dlsym(m, name) # Null
    BY <2>2, ModuleOf, LibraryIsReal
  <2> QED
    BY <2>1, <2>2, <2>3
<1> QED
  BY <1>4, <1>5

\* An interface: its symbols, and the one that tells whether it is there.
Interfaces == {<<Hmac102, "HMAC_CTX_init">>, <<Hmac111, "HMAC_CTX_new">>,
               <<Digest102, "EVP_MD_CTX_create">>, <<Digest111, "EVP_MD_CTX_new">>}

\* A library that has one symbol of an interface has the others.
LEMMA WholeInterface ==
  ASSUME NEW kind \in Kind, NEW f \in Interfaces, f[2] \in Symbols(kind)
  PROVE  f[1] \subseteq Symbols(kind)
BY DEF Kind, Interfaces, Symbols, Hmac102, Hmac111, Digest102, Digest111, HmacCommon, DigestCommon

\* That symbol is one of the interface.
LEMMA KeySymbol ==
  ASSUME NEW f \in Interfaces
  PROVE  f[2] \in f[1]
BY DEF Interfaces, Hmac102, Hmac111, Digest102, Digest111, HmacCommon, DigestCommon

\* Linked functions are those of one library, or NULL.
LEMMA WeakPointer ==
  ASSUME NEW e, IsEnvironment(e), NEW name
  PROVE  Weak(e, name) \in {Null, Linked(e)} /\ Linked(e) # Null /\ Linked(e) # Own
BY DEF Weak, Linked, Pointer, Null, Own

\* An interface is bound to the linked library or to the module's, as a whole: where its
\* first function is found the others are, and with one library in the module all are of it.
LEMMA BindWhole ==
  ASSUME NEW e, IsEnvironment(e), NEW m, IsModule(m), NEW f \in Interfaces,
         Bind(e, m, f[1])[f[2]] # Null
  PROVE  \/ \A name \in f[1] : Bind(e, m, f[1])[name] = Linked(e) /\ Weak(e, name) = Linked(e)
         \/ /\ \A name \in f[1] : Bind(e, m, f[1])[name] \in In(m)
            /\ \E name \in f[1] : Weak(e, name) = Null
<1>1. CASE \A name \in f[1] : Weak(e, name) # Null
  <2>1. \A name \in f[1] : Bind(e, m, f[1])[name] = Weak(e, name)
    BY <1>1 DEF Bind
  <2> QED
    BY <1>1, <2>1, WeakPointer
<1>2. CASE \E name \in f[1] : Weak(e, name) = Null
  <2>1. \A name \in f[1] : Bind(e, m, f[1])[name] = dlsym(m, name)
    BY <1>2 DEF Bind
  <2>2. dlsym(m, f[2]) \in In(m) /\ f[2] \in Symbols(dlsym(m, f[2]).kind)
    BY <2>1, DlsymFinds, KeySymbol
  <2>3. f[1] \subseteq Symbols(dlsym(m, f[2]).kind)
    <3>1. dlsym(m, f[2]).kind \in Kind
      BY <2>2, ModuleOf, LibraryIsReal
    <3> QED
      BY <2>2, <3>1, WholeInterface
  <2>4. \A name \in f[1] : dlsym(m, name) # Null
    BY <2>2, <2>3, DlsymFinds
  <2>5. \A name \in f[1] : dlsym(m, name) \in In(m)
    BY <2>4, DlsymFinds
  <2> QED
    BY <1>2, <2>1, <2>5
<1> QED
  BY <1>1, <1>2

-----------------------------------------------------------------------------
(* The tables. *)

\* A table that was filled in for a version is complete, and of one library if the module is.
GoodHmac(e, version, m, h) ==
  /\ h.version = version
  /\ CompleteHmac(IF e.build = "LC" /\ h.init = Null /\ h.new.at # "linked"
                  THEN [h EXCEPT !.init = Own] ELSE h)
  /\ Single(m) => OneLibrary(h)
GoodDigest(version, m, d) ==
  d.version = version /\ CompleteDigest(d) /\ (Single(m) => OneLibrary(d))

\* Whether a version is found depends on the environment and the module only.
HmacThere(e, version, m) ==
  \/ version = "1.0.2" /\ OpensslBuild(e) /\ Bind(e, m, Hmac102)["HMAC_CTX_init"] # Null
  \/ version = "1.1.1" /\ OpensslBuild(e) /\ Bind(e, m, Hmac111)["HMAC_CTX_new"] # Null
  \/ version \in {"LC", "BORINGSSL"} /\ e.build = version
       /\ Bind(e, m, Hmac111)["HMAC_CTX_new"] # Null
DigestThere(e, version, m) ==
  \/ version = "1.0.2" /\ e.build # "LC" /\ Bind(e, m, Digest102)["EVP_MD_CTX_create"] # Null
  \/ version # "1.0.2" /\ (version = "LC" <=> e.build = "LC")
       /\ Bind(e, m, Digest111)["EVP_MD_CTX_new"] # Null

\* A step of the search for the version in the module succeeds.
Offers(e, version, m) == HmacThere(e, version, m) /\ DigestThere(e, version, m)

\* All functions are there, of one library if the module is one.
Whole(m, names, fn) ==
  /\ \A name \in names : fn[name] \notin {Null, Own}
  /\ Single(m) => \E p : p \notin {Null, Own} /\ \A name \in names : fn[name] = p

\* An interface that is bound has all its functions, of one library if the module has one.
LEMMA BindOne ==
  ASSUME NEW e, IsEnvironment(e), NEW m, IsModule(m), NEW names, NEW key,
         <<names, key>> \in Interfaces, Bind(e, m, names)[key] # Null
  PROVE  Whole(m, names, Bind(e, m, names))
<1>1. \/ \A name \in names : Bind(e, m, names)[name] = Linked(e) /\ Weak(e, name) = Linked(e)
      \/ /\ \A name \in names : Bind(e, m, names)[name] \in In(m)
         /\ \E name \in names : Weak(e, name) = Null
  <2> DEFINE f == <<names, key>>
  <2>1. f \in Interfaces /\ f[1] = names /\ f[2] = key
    OBVIOUS
  <2> HIDE DEF f
  <2> QED
    BY <2>1, BindWhole
<1>2. key \in names
  BY KeySymbol
<1>3. CASE \A name \in names : Bind(e, m, names)[name] = Linked(e)
  BY <1>3, WeakPointer DEF Whole
<1>4. CASE \A name \in names : Bind(e, m, names)[name] \in In(m)
  <2>1. \A name \in names : Bind(e, m, names)[name] \notin {Null, Own}
    BY <1>4, ModuleOf, LibraryIsReal
  <2>2. ASSUME Single(m)
        PROVE  \A name \in names : Bind(e, m, names)[name] = Bind(e, m, names)[key]
    BY <1>2, <1>4, <2>2 DEF Single
  <2> QED
    BY <1>2, <2>1, <2>2 DEF Whole
<1> QED
  BY <1>1, <1>3, <1>4

\* openssl_platform_init.c:120-172.  The table of 1.0.2: its own new and free, and no wrapper.
LEMMA Hmac102Table ==
  ASSUME NEW e, IsEnvironment(e), NEW m, IsModule(m), NEW table,
         HmacThere(e, "1.0.2", m)
  PROVE  /\ s_resolve_hmac_102(e, m, table).ok = TRUE
         /\ GoodHmac(e, "1.0.2", m, s_resolve_hmac_102(e, m, table).table)
<1> DEFINE fn == Bind(e, m, Hmac102)
           h == [version |-> "1.0.2", new |-> Own, free |-> Own,
                 init |-> fn["HMAC_CTX_init"], clean_up |-> fn["HMAC_CTX_cleanup"],
                 update |-> fn["HMAC_Update"], final |-> fn["HMAC_Final"],
                 init_ex |-> fn["HMAC_Init_ex"], impl |-> table.impl]
<1>1. OpensslBuild(e) /\ fn["HMAC_CTX_init"] # Null
  BY DEF HmacThere
<1>2. s_resolve_hmac_102(e, m, table) = [ok |-> TRUE, table |-> h]
  BY <1>1, Zenon DEF s_resolve_hmac_102
<1>3. Whole(m, Hmac102, fn)
  <2>1. <<Hmac102, "HMAC_CTX_init">> \in Interfaces
    BY DEF Interfaces
  <2> QED
    BY <1>1, <2>1, BindOne, Zenon
<1> HIDE DEF fn
<1>4. CompleteHmac(h) /\ h.init # Null /\ h.version = "1.0.2"
  BY <1>3 DEF Whole, CompleteHmac, Own, Null, Pointer, Hmac102, HmacCommon
<1>5. ASSUME Single(m) PROVE OneLibrary(h)
  <2>1. PICK p : p \notin {Null, Own} /\ \A name \in Hmac102 : fn[name] = p
    BY <1>3, <1>5 DEF Whole
  <2>2. /\ h.init = p /\ h.clean_up = p /\ h.update = p /\ h.final = p /\ h.init_ex = p
        /\ h.new = Own /\ h.free = Own
    BY <2>1 DEF Hmac102, HmacCommon
  <2>3. DOMAIN h = {"version", "new", "free", "init", "clean_up", "update", "final", "init_ex", "impl"}
    OBVIOUS
  <2> HIDE DEF h
  <2>4. Libraries(h) = {p}
    BY <2>1, <2>2, <2>3 DEF Libraries
  <2> QED
    BY <2>4 DEF OneLibrary
<1> HIDE DEF h
<1>6. GoodHmac(e, "1.0.2", m, h)
  BY <1>4, <1>5 DEF GoodHmac
<1> QED
  BY <1>2, <1>6

\* The tables of the later interfaces: init and clean_up are stubs, or linked, or not there.
LEMMA NewStyleTable ==
  ASSUME NEW e, IsEnvironment(e), NEW m, IsModule(m), NEW version,
         Bind(e, m, Hmac111)["HMAC_CTX_new"] # Null, NEW init, NEW clean_up,
         \/ init = Own /\ clean_up = Own
         \/ /\ e.build = "LC"
            /\ init = Weak(e, "HMAC_CTX_init") /\ clean_up = Weak(e, "HMAC_CTX_cleanup")
  PROVE  GoodHmac(e, version, m, NewStyle(version, Bind(e, m, Hmac111), init, clean_up))
<1> DEFINE fn == Bind(e, m, Hmac111)
           h == [version |-> version, new |-> fn["HMAC_CTX_new"], free |-> fn["HMAC_CTX_free"],
                 init |-> init, clean_up |-> clean_up,
                 update |-> fn["HMAC_Update"], final |-> fn["HMAC_Final"],
                 init_ex |-> Own, impl |-> fn["HMAC_Init_ex"]]
<1>1. NewStyle(version, fn, init, clean_up) = h
  BY Zenon DEF NewStyle
<1>2. <<Hmac111, "HMAC_CTX_new">> \in Interfaces
  BY DEF Interfaces
<1>3. Whole(m, Hmac111, fn)
  BY <1>2, BindOne, Zenon
<1>4. \/ \A name \in Hmac111 : fn[name] = Linked(e)
      \/ /\ \A name \in Hmac111 : fn[name] \in In(m)
         /\ \E name \in Hmac111 : Weak(e, name) = Null
  <2> DEFINE f == <<Hmac111, "HMAC_CTX_new">>
  <2>1. f \in Interfaces /\ f[1] = Hmac111 /\ f[2] = "HMAC_CTX_new"
    BY <1>2
  <2> HIDE DEF f
  <2> QED
    BY <2>1, BindWhole
\* In a build with AWS-LC the old functions are linked when the new ones are.
<1>5. ASSUME e.build = "LC"
      PROVE  \/ /\ \A name \in Hmac111 : fn[name] = Linked(e)
                /\ Weak(e, "HMAC_CTX_init") = Linked(e) /\ Weak(e, "HMAC_CTX_cleanup") = Linked(e)
             \/ /\ \A name \in Hmac111 : fn[name] \in In(m)
                /\ Weak(e, "HMAC_CTX_init") = Null /\ Weak(e, "HMAC_CTX_cleanup") = Null
  <2>0. Linked(e) # Null /\ Linked(e).at = "linked" /\ \A p \in In(m) : p.at # "linked"
    BY WeakPointer, ModuleOf, LibraryIsReal DEF Linked, Pointer
  <2>1. \A name \in Hmac102 \cup Hmac111 :
          Weak(e, name) = IF "hmac" \in e.linked THEN Linked(e) ELSE Null
    BY <1>5 DEF Weak, Linked, Symbols, Hmac102, Hmac111, Digest102, Digest111, HmacCommon, DigestCommon
  <2>2. "HMAC_CTX_init" \in Hmac102 /\ "HMAC_CTX_cleanup" \in Hmac102 /\ "HMAC_CTX_new" \in Hmac111
    BY DEF Hmac102, Hmac111
  <2>3. CASE "hmac" \in e.linked
    <3>1. \A name \in Hmac111 : fn[name] = Linked(e)
      BY <2>0, <2>1, <2>3 DEF Bind
    <3> QED
      BY <2>1, <2>2, <2>3, <3>1
  <2>4. CASE "hmac" \notin e.linked
    <3>1. \A name \in Hmac111 : fn[name] = dlsym(m, name)
      BY <2>1, <2>2, <2>4 DEF Bind
    <3>2. ~ \A name \in Hmac111 : fn[name] = Linked(e)
      BY <2>0, <2>2, <3>1, DlsymFinds
    <3> QED
      BY <1>4, <2>1, <2>2, <2>4, <3>2
  <2> QED
    BY <2>3, <2>4
<1>6. h.new = fn["HMAC_CTX_new"] /\ h.init = init /\ h.version = version
  OBVIOUS
<1>7. /\ {"HMAC_CTX_new", "HMAC_CTX_free", "HMAC_Update", "HMAC_Final", "HMAC_Init_ex"} = Hmac111
      /\ Own # Null
  BY DEF Hmac111, HmacCommon, Own, Null, Pointer
<1> HIDE DEF fn
<1>8. CompleteHmac(IF e.build = "LC" /\ h.init = Null /\ h.new.at # "linked"
                   THEN [h EXCEPT !.init = Own] ELSE h)
  <2>1. \A f \in {"new", "free", "update", "final", "init_ex"} : h[f] # Null
    BY <1>3, <1>7 DEF Whole
  <2>2. CASE e.build = "LC" /\ h.init = Null /\ h.new.at # "linked"
    <3>1. CompleteHmac([h EXCEPT !.init = Own])
      BY <1>7, <2>1 DEF CompleteHmac
    <3> QED
      BY <2>2, <3>1
  <2>3. CASE ~(e.build = "LC" /\ h.init = Null /\ h.new.at # "linked")
    <3>1. h.init # Null
      <4>1. CASE init = Own
        BY <1>6, <1>7, <4>1
      <4>2. CASE e.build = "LC" /\ init = Weak(e, "HMAC_CTX_init")
        <5>1. Linked(e) # Null
          BY WeakPointer
        <5>2. \A p \in In(m) : p.at # "linked"
          BY ModuleOf, LibraryIsReal
        <5> QED
          BY <1>5, <1>6, <1>7, <2>3, <4>2, <5>1, <5>2
      <4> QED
        BY <4>1, <4>2
    <3> HIDE DEF h
    <3>2. CompleteHmac(h)
      BY <2>1, <3>1 DEF CompleteHmac
    <3> QED
      BY <2>3, <3>2
  <2> QED
    BY <2>2, <2>3
<1>9. ASSUME Single(m) PROVE OneLibrary(h)
  <2>1. PICK p : p \notin {Null, Own} /\ \A name \in Hmac111 : fn[name] = p
    BY <1>3, <1>9 DEF Whole
  <2>2. /\ h.new = p /\ h.free = p /\ h.update = p /\ h.final = p /\ h.impl = p /\ h.init_ex = Own
    BY <1>7, <2>1
  <2>3. h.init \in {Null, Own, p} /\ h.clean_up \in {Null, Own, p}
    BY <1>5, <1>6, <1>7, <2>1
  <2>4. DOMAIN h = {"version", "new", "free", "init", "clean_up", "update", "final", "init_ex", "impl"}
    OBVIOUS
  <2> HIDE DEF h
  <2>5. Libraries(h) = {p}
    BY <2>1, <2>2, <2>3, <2>4 DEF Libraries
  <2> QED
    BY <2>5 DEF OneLibrary
<1> HIDE DEF h
<1>10. GoodHmac(e, version, m, h)
  BY <1>6, <1>8, <1>9 DEF GoodHmac
<1> QED
  BY <1>1, <1>10 DEF fn

\* openssl_platform_init.c:120-331.  A table is filled in where the version is there.
LEMMA HmacTable ==
  ASSUME NEW e, IsEnvironment(e), NEW m, IsModule(m), NEW table,
         NEW version \in {"1.0.2", "1.1.1", "LC", "BORINGSSL"}
  PROVE  LET h == s_resolve_libcrypto_hmac(e, version, m, table) IN
         /\ h.ok \in BOOLEAN
         /\ h.ok <=> HmacThere(e, version, m)
         /\ h.ok => GoodHmac(e, version, m, h.table)
<1> DEFINE fn == Bind(e, m, Hmac111)
<1>1. CASE version = "1.0.2"
  <2>1. s_resolve_libcrypto_hmac(e, version, m, table) = s_resolve_hmac_102(e, m, table)
    BY <1>1 DEF s_resolve_libcrypto_hmac
  <2>2. ASSUME ~HmacThere(e, version, m)
        PROVE  s_resolve_hmac_102(e, m, table) = [ok |-> FALSE, table |-> table]
    BY <1>1, <2>2, Zenon DEF HmacThere, s_resolve_hmac_102
  <2>3. ASSUME HmacThere(e, version, m)
        PROVE  /\ s_resolve_hmac_102(e, m, table).ok = TRUE
               /\ GoodHmac(e, version, m, s_resolve_hmac_102(e, m, table).table)
    BY <1>1, <2>3, Hmac102Table, Zenon
  <2>4. CASE HmacThere(e, version, m)
    BY <2>1, <2>3, <2>4, Zenon
  <2>5. CASE ~HmacThere(e, version, m)
    <3>1. s_resolve_hmac_102(e, m, table).ok = FALSE
      BY <2>2, <2>5
    <3> QED
      BY <2>1, <2>5, <3>1, Zenon
  <2> QED
    BY <2>4, <2>5
<1>2. CASE version = "1.1.1"
  <2>1. s_resolve_libcrypto_hmac(e, version, m, table) =
          IF HmacThere(e, version, m)
          THEN [ok |-> TRUE, table |-> NewStyle(version, fn, Own, Own)]
          ELSE [ok |-> FALSE, table |-> table]
    BY <1>2 DEF s_resolve_libcrypto_hmac, s_resolve_hmac_111, HmacThere
  <2>2. ASSUME HmacThere(e, version, m)
        PROVE  GoodHmac(e, version, m, NewStyle(version, fn, Own, Own))
    BY <1>2, <2>2, NewStyleTable, Zenon DEF HmacThere
  <2> QED
    BY <2>1, <2>2
<1>3. CASE version = "LC"
  <2> DEFINE init == Weak(e, "HMAC_CTX_init")
             clean_up == Weak(e, "HMAC_CTX_cleanup")
  <2>1. s_resolve_libcrypto_hmac(e, version, m, table) =
          IF HmacThere(e, version, m)
          THEN [ok |-> TRUE, table |-> NewStyle(version, fn, init, clean_up)]
          ELSE [ok |-> FALSE, table |-> table]
    BY <1>3 DEF s_resolve_libcrypto_hmac, s_resolve_hmac_lc, HmacThere
  <2>2. ASSUME HmacThere(e, version, m)
        PROVE  GoodHmac(e, version, m, NewStyle(version, fn, init, clean_up))
    BY <1>3, <2>2, NewStyleTable, Zenon DEF HmacThere
  <2> QED
    BY <2>1, <2>2
<1>4. CASE version = "BORINGSSL"
  <2>1. s_resolve_libcrypto_hmac(e, version, m, table) =
          IF HmacThere(e, version, m)
          THEN [ok |-> TRUE, table |-> NewStyle(version, fn, Own, Own)]
          ELSE [ok |-> FALSE, table |-> table]
    BY <1>4 DEF s_resolve_libcrypto_hmac, s_resolve_hmac_boringssl, HmacThere
  <2>2. ASSUME HmacThere(e, version, m)
        PROVE  GoodHmac(e, version, m, NewStyle(version, fn, Own, Own))
    BY <1>4, <2>2, NewStyleTable, Zenon DEF HmacThere
  <2> QED
    BY <2>1, <2>2
<1> QED
  BY <1>1, <1>2, <1>3, <1>4

\* The tables for digests, in the old style and in the new.
LEMMA DigestTableIsGood ==
  ASSUME NEW e, IsEnvironment(e), NEW m, IsModule(m), NEW version, NEW names, NEW new, NEW free,
         \/ names = Digest102 /\ new = "EVP_MD_CTX_create" /\ free = "EVP_MD_CTX_destroy"
         \/ names = Digest111 /\ new = "EVP_MD_CTX_new" /\ free = "EVP_MD_CTX_free",
         Bind(e, m, names)[new] # Null
  PROVE  GoodDigest(version, m, DigestTable(version, Bind(e, m, names), new, free))
<1> DEFINE fn == Bind(e, m, names)
           d == [version |-> version, new |-> fn[new], free |-> fn[free],
                 init_ex |-> fn["EVP_DigestInit_ex"], update |-> fn["EVP_DigestUpdate"],
                 final_ex |-> fn["EVP_DigestFinal_ex"]]
<1>1. DigestTable(version, fn, new, free) = d
  BY Zenon DEF DigestTable
<1>2. <<names, new>> \in Interfaces
  BY DEF Interfaces
<1>3. Whole(m, names, fn)
  BY <1>2, BindOne, Zenon
<1>4. {new, free, "EVP_DigestInit_ex", "EVP_DigestUpdate", "EVP_DigestFinal_ex"} \subseteq names
  BY DEF Digest102, Digest111, DigestCommon
<1> HIDE DEF fn
<1>5. CompleteDigest(d) /\ d.version = version
  BY <1>3, <1>4 DEF Whole, CompleteDigest
<1>6. ASSUME Single(m) PROVE OneLibrary(d)
  <2>1. PICK p : p \notin {Null, Own} /\ \A name \in names : fn[name] = p
    BY <1>3, <1>6 DEF Whole
  <2>2. d.new = p /\ d.free = p /\ d.init_ex = p /\ d.update = p /\ d.final_ex = p
    BY <1>4, <2>1
  <2>3. DOMAIN d = {"version", "new", "free", "init_ex", "update", "final_ex"}
    OBVIOUS
  <2> HIDE DEF d
  <2>4. Libraries(d) = {p}
    BY <2>1, <2>2, <2>3 DEF Libraries
  <2> QED
    BY <2>4 DEF OneLibrary
<1> HIDE DEF d
<1>7. GoodDigest(version, m, d)
  BY <1>5, <1>6 DEF GoodDigest
<1> QED
  BY <1>1, <1>7 DEF fn

\* openssl_platform_init.c:333-471.  The same for digests.
LEMMA DigestTables ==
  ASSUME NEW e, IsEnvironment(e), NEW m, IsModule(m), NEW table,
         NEW version \in {"1.0.2", "1.1.1", "LC", "BORINGSSL"}
  PROVE  LET d == s_resolve_libcrypto_md(e, version, m, table) IN
         /\ d.ok \in BOOLEAN
         /\ d.ok <=> DigestThere(e, version, m)
         /\ d.ok => GoodDigest(version, m, d.table)
<1> DEFINE old == DigestTable(version, Bind(e, m, Digest102), "EVP_MD_CTX_create", "EVP_MD_CTX_destroy")
           new == DigestTable(version, Bind(e, m, Digest111), "EVP_MD_CTX_new", "EVP_MD_CTX_free")
           table2 == IF version = "1.0.2" THEN old ELSE new
<1>1. s_resolve_libcrypto_md(e, version, m, table) =
        IF DigestThere(e, version, m) THEN [ok |-> TRUE, table |-> table2]
        ELSE [ok |-> FALSE, table |-> table]
  <2>1. CASE version = "1.0.2"
    <3>1. s_resolve_libcrypto_md(e, version, m, table) = s_resolve_md_102(e, m, table)
      BY <2>1 DEF s_resolve_libcrypto_md
    <3> QED
      BY <2>1, <3>1 DEF s_resolve_md_102, DigestThere
  <2>2. CASE version # "1.0.2" /\ (version = "LC" <=> e.build = "LC")
    <3>1. s_resolve_libcrypto_md(e, version, m, table) = NewStyleDigest(e, version, m, table)
      BY <2>2 DEF s_resolve_libcrypto_md
    <3> QED
      BY <2>2, <3>1 DEF NewStyleDigest, DigestThere
  <2>3. CASE version # "1.0.2" /\ ~(version = "LC" <=> e.build = "LC")
    BY <2>3 DEF s_resolve_libcrypto_md, DigestThere
  <2> QED
    BY <2>1, <2>2, <2>3
<1>2. ASSUME DigestThere(e, version, m)
      PROVE  GoodDigest(version, m, table2)
  <2>1. CASE version = "1.0.2"
    <3>1. GoodDigest(version, m, old)
      BY <1>2, <2>1, DigestTableIsGood, Zenon DEF DigestThere
    <3> QED
      BY <2>1, <3>1, Zenon
  <2>2. CASE version # "1.0.2"
    <3>1. GoodDigest(version, m, new)
      BY <1>2, <2>2, DigestTableIsGood, Zenon DEF DigestThere
    <3> QED
      BY <2>2, <3>1, Zenon
  <2> QED
    BY <2>1, <2>2
<1> HIDE DEF table2
<1> QED
  BY <1>1, <1>2

-----------------------------------------------------------------------------
(* The search. *)

Versions == {"none", "1.0.2", "1.1.1", "LC", "BORINGSSL"}

\* A state of the search, with its three fields and a version.
IsSearch(t) ==
  t.version \in Versions /\ t = [version |-> t.version, hmac |-> t.hmac, md |-> t.md]

\* Looking for one version in one module finds that version or leaves the search going.
LEMMA SymbolsStep ==
  ASSUME NEW e, NEW t, IsSearch(t), NEW version \in Versions, NEW module
  PROVE  IsSearch(s_resolve_libcrypto_symbols(e, t, version, module))
<1> DEFINE hmac == s_resolve_libcrypto_hmac(e, version, module, t.hmac)
           md == s_resolve_libcrypto_md(e, version, module, t.md)
           r == s_resolve_libcrypto_symbols(e, t, version, module)
<1>1. r = IF t.version # "none" THEN t
          ELSE CASE ~hmac.ok -> t
                 [] hmac.ok /\ ~md.ok -> [t EXCEPT !.hmac = hmac.table]
                 [] hmac.ok /\ md.ok -> [version |-> version, hmac |-> hmac.table, md |-> md.table]
  BY Zenon DEF s_resolve_libcrypto_symbols
<1> HIDE DEF hmac, md, r
<1>2. \/ r = t
      \/ r = [t EXCEPT !.hmac = hmac.table]
      \/ r = [version |-> version, hmac |-> hmac.table, md |-> md.table]
  BY <1>1
<1>3. [t EXCEPT !.hmac = hmac.table] = [version |-> t.version, hmac |-> hmac.table, md |-> t.md]
  BY DEF IsSearch
<1>4. IsSearch(r)
  BY <1>2, <1>3 DEF IsSearch
<1> QED
  BY <1>4, SMTT(30) DEF r

\* So does the search in the files.
LEMMA LibStep ==
  ASSUME NEW e, NEW t, IsSearch(t)
  PROVE  IsSearch(s_resolve_libcrypto_lib(e, t))
<1>1. ASSUME NEW u, IsSearch(u), NEW version \in Versions, NEW file
      PROVE  IsSearch(InFile(e, u, version, file))
  BY <1>1, SymbolsStep DEF InFile
<1>2. ASSUME NEW u, IsSearch(u), NEW module
      PROVE  IsSearch(ByVersion(e, u, module))
  <2>1. IsSearch(s_resolve_libcrypto_symbols(e, u, "LC", module))
    BY <1>2, SymbolsStep, Zenon DEF Versions
  <2>2. IsSearch(s_resolve_libcrypto_symbols(e, s_resolve_libcrypto_symbols(e, u, "LC", module),
                                             "1.1.1", module))
    BY <2>1, SymbolsStep, Zenon DEF Versions
  <2>3. IsSearch(s_resolve_libcrypto_symbols(e, u, "1.0.2", module))
    BY <1>2, SymbolsStep, Zenon DEF Versions
  <2> QED
    BY <1>2, <2>2, <2>3 DEF ByVersion
<1> DEFINE t102 == InFile(e, t, "1.0.2", "libcrypto.so.1.0.0")
           t111 == InFile(e, t102, "1.1.1", "libcrypto.so.1.1")
<1>3. IsSearch(t102)
  BY <1>1, Zenon DEF Versions
<1> HIDE DEF t102
<1>4. IsSearch(t111)
  BY <1>1, <1>3, Zenon DEF Versions
<1> HIDE DEF t111
<1>5. IsSearch(ByVersion(e, t111, e.so["libcrypto.so"]))
  BY <1>2, <1>4, Zenon
<1> QED
  BY <1>4, <1>5 DEF s_resolve_libcrypto_lib, t111, t102

\* And the whole search, whatever an earlier one has left in the tables.
LEMMA SearchStep ==
  ASSUME NEW e, NEW t, IsSearch(t)
  PROVE  IsSearch(s_resolve_libcrypto(e, t))
<1> DEFINE start == [t EXCEPT !.version = "none"]
           lc == s_resolve_libcrypto_symbols(e, start, "LC", e.process)
           boringssl == s_resolve_libcrypto_symbols(e, lc, "BORINGSSL", e.process)
           v102 == s_resolve_libcrypto_symbols(e, boringssl, "1.0.2", e.process)
           v111 == s_resolve_libcrypto_symbols(e, v102, "1.1.1", e.process)
<1>1. IsSearch(start)
  BY DEF IsSearch, Versions
<1> HIDE DEF start
<1>2. IsSearch(lc)
  BY <1>1, SymbolsStep, Zenon DEF Versions
<1> HIDE DEF lc
<1>3. IsSearch(boringssl)
  BY <1>2, SymbolsStep, Zenon DEF Versions
<1> HIDE DEF boringssl
<1>4. IsSearch(v102)
  BY <1>3, SymbolsStep, Zenon DEF Versions
<1> HIDE DEF v102
<1>5. IsSearch(v111)
  BY <1>4, SymbolsStep, Zenon DEF Versions
<1> HIDE DEF v111
<1>6. IsSearch(s_resolve_libcrypto_lib(e, v111))
  BY <1>5, LibStep
<1> QED
  BY <1>5, <1>6, Zenon DEF s_resolve_libcrypto, v111, v102, boringssl, lc, start

\* What was found is what it should be.
Good(e, t) ==
  t.version # "none" =>
    GoodHmac(e, t.version, e.process, t.hmac) /\ GoodDigest(t.version, e.process, t.md)

\* Looking for one version in one module finds it where it is there, and otherwise goes on.
LEMMA SymbolsStepGood ==
  ASSUME NEW e, IsEnvironment(e), NEW t, IsSearch(t), Good(e, t), NEW m, IsModule(m),
         Single(e.process) => Single(m), NEW version \in Versions \ {"none"}
  PROVE  LET r == s_resolve_libcrypto_symbols(e, t, version, m) IN
         /\ Good(e, r)
         /\ r.version = "none" =>
              t.version = "none" /\ ~Offers(e, version, m)
<1> DEFINE hmac == s_resolve_libcrypto_hmac(e, version, m, t.hmac)
           md == s_resolve_libcrypto_md(e, version, m, t.md)
           r == s_resolve_libcrypto_symbols(e, t, version, m)
<1>1. r = IF t.version # "none" THEN t
          ELSE CASE ~hmac.ok -> t
                 [] hmac.ok /\ ~md.ok -> [t EXCEPT !.hmac = hmac.table]
                 [] hmac.ok /\ md.ok -> [version |-> version, hmac |-> hmac.table, md |-> md.table]
  BY Zenon DEF s_resolve_libcrypto_symbols
<1>2. version \in {"1.0.2", "1.1.1", "LC", "BORINGSSL"}
  BY DEF Versions
<1>3. /\ hmac.ok \in BOOLEAN
      /\ hmac.ok <=> HmacThere(e, version, m)
      /\ hmac.ok => GoodHmac(e, version, m, hmac.table)
  BY <1>2, HmacTable, Zenon
<1>4. /\ md.ok \in BOOLEAN
      /\ md.ok <=> DigestThere(e, version, m)
      /\ md.ok => GoodDigest(version, m, md.table)
  BY <1>2, DigestTables, Zenon
<1> SUFFICES /\ Good(e, r)
             /\ r.version = "none" =>
                  t.version = "none" /\ ~Offers(e, version, m)
  OBVIOUS
<1> HIDE DEF hmac, md, r
<1>5. CASE t.version # "none"
  BY <1>1, <1>5
<1>6. CASE t.version = "none" /\ ~(hmac.ok /\ md.ok)
  <2>1. r = t \/ r = [t EXCEPT !.hmac = hmac.table]
    BY <1>1, <1>3, <1>4, <1>6
  <2>2. r.version = "none"
    BY <1>6, <2>1 DEF IsSearch
  <2> QED
    BY <1>3, <1>4, <1>6, <2>2 DEF Good, Offers
<1>7. CASE t.version = "none" /\ hmac.ok /\ md.ok
  <2>1. r = [version |-> version, hmac |-> hmac.table, md |-> md.table]
    BY <1>1, <1>7
  <2>2. r.version = version /\ r.hmac = hmac.table /\ r.md = md.table
    BY <2>1
  <2>3. GoodHmac(e, version, e.process, r.hmac) /\ GoodDigest(version, e.process, r.md)
    BY <1>3, <1>4, <1>7, <2>2 DEF GoodHmac, GoodDigest
  <2> QED
    BY <2>2, <2>3 DEF Good
<1> QED
  BY <1>3, <1>4, <1>5, <1>6, <1>7, SMTT(30)


\* What the linker has bound, or a library of the module has, is found.
LEMMA BindThere ==
  ASSUME NEW e, IsEnvironment(e), NEW m, IsModule(m), NEW names, NEW key,
         <<names, key>> \in Interfaces,
         \/ \A name \in names : Weak(e, name) # Null
         \/ \E p \in In(m) : key \in Symbols(p.kind)
  PROVE  Bind(e, m, names)[key] # Null
<1>1. key \in names
  BY KeySymbol
<1>2. CASE \A name \in names : Weak(e, name) # Null
  BY <1>1, <1>2 DEF Bind
<1>3. CASE ~ \A name \in names : Weak(e, name) # Null
  <2>1. Bind(e, m, names)[key] = dlsym(m, key)
    BY <1>1, <1>3 DEF Bind
  <2> QED
    BY <1>3, <2>1, DlsymFinds
<1> QED
  BY <1>2, <1>3

\* The version that a library is found as.
VersionOf(e, kind) ==
  CASE OpensslBuild(e) /\ kind = "1.0.2" -> "1.0.2"
    [] OpensslBuild(e) /\ kind # "1.0.2" -> "1.1.1"
    [] OTHER -> e.build

\* A library that serves the build is found as its version, wherever it is.
LEMMA LibraryOffers ==
  ASSUME NEW e, IsEnvironment(e), NEW m, IsModule(m), NEW p \in In(m), Serves(e.build, p.kind)
  PROVE  Offers(e, VersionOf(e, p.kind), m)
<1>1. p.kind \in Kind /\ e.build \in Kind \ {"1.1.0"}
  BY ModuleOf, LibraryIsReal DEF IsEnvironment
<1>2. ASSUME NEW names, NEW key, <<names, key>> \in Interfaces, key \in Symbols(p.kind)
      PROVE  Bind(e, m, names)[key] # Null
  BY <1>2, BindThere, Zenon
<1>3. /\ <<Hmac102, "HMAC_CTX_init">> \in Interfaces /\ <<Hmac111, "HMAC_CTX_new">> \in Interfaces
      /\ <<Digest102, "EVP_MD_CTX_create">> \in Interfaces
      /\ <<Digest111, "EVP_MD_CTX_new">> \in Interfaces
  BY DEF Interfaces
<1>4. CASE OpensslBuild(e) /\ p.kind = "1.0.2"
  <2>1. "HMAC_CTX_init" \in Symbols(p.kind) /\ "EVP_MD_CTX_create" \in Symbols(p.kind)
    BY <1>4 DEF Symbols, Hmac102, Digest102
  <2>2. /\ Bind(e, m, Hmac102)["HMAC_CTX_init"] # Null
        /\ Bind(e, m, Digest102)["EVP_MD_CTX_create"] # Null
    BY <1>2, <1>3, <2>1, Zenon
  <2> QED
    BY <1>4, <2>2 DEF Offers, HmacThere, DigestThere, VersionOf, OpensslBuild
<1>5. CASE ~(OpensslBuild(e) /\ p.kind = "1.0.2")
  <2>1. "HMAC_CTX_new" \in Symbols(p.kind) /\ "EVP_MD_CTX_new" \in Symbols(p.kind)
    BY <1>1, <1>5, Zenon DEF OpensslBuild, Serves, Kind, Symbols, Hmac111, Digest111
  <2>2. /\ Bind(e, m, Hmac111)["HMAC_CTX_new"] # Null
        /\ Bind(e, m, Digest111)["EVP_MD_CTX_new"] # Null
    BY <1>2, <1>3, <2>1, Zenon
  <2> QED
    BY <1>1, <1>5, <2>2 DEF Offers, HmacThere, DigestThere, VersionOf, OpensslBuild, Kind
<1> QED
  BY <1>4, <1>5

\* What is linked as a whole is found as the version of the build.
LEMMA LinkedOffers ==
  ASSUME NEW e, IsEnvironment(e), NEW m, IsModule(m), e.linked = {"hmac", "digest"}
  PROVE  Offers(e, e.build, m)
<1>1. e.build \in Kind \ {"1.1.0"} /\ Linked(e) # Null
  BY WeakPointer DEF IsEnvironment
<1>2. /\ <<Hmac102, "HMAC_CTX_init">> \in Interfaces /\ <<Hmac111, "HMAC_CTX_new">> \in Interfaces
      /\ <<Digest102, "EVP_MD_CTX_create">> \in Interfaces
      /\ <<Digest111, "EVP_MD_CTX_new">> \in Interfaces
  BY DEF Interfaces
<1>3. CASE e.build = "1.0.2"
  <2>1. /\ \A name \in Hmac102 : Weak(e, name) # Null
        /\ \A name \in Digest102 : Weak(e, name) # Null
    BY <1>1, <1>3 DEF Weak, Linked, Symbols
  <2>2. /\ Bind(e, m, Hmac102)["HMAC_CTX_init"] # Null
        /\ Bind(e, m, Digest102)["EVP_MD_CTX_create"] # Null
    BY <1>2, <2>1, BindThere, Zenon
  <2> QED
    BY <1>3, <2>2 DEF Offers, HmacThere, DigestThere, OpensslBuild
<1>4. CASE e.build # "1.0.2"
  <2>1. /\ \A name \in Hmac111 : Weak(e, name) # Null
        /\ \A name \in Digest111 : Weak(e, name) # Null
    BY <1>1, <1>4 DEF Weak, Linked, Symbols, Kind
  <2>2. /\ Bind(e, m, Hmac111)["HMAC_CTX_new"] # Null
        /\ Bind(e, m, Digest111)["EVP_MD_CTX_new"] # Null
    BY <1>2, <2>1, BindThere, Zenon
  <2> QED
    BY <1>1, <1>4, <2>2 DEF Offers, HmacThere, DigestThere, OpensslBuild, Kind
<1> QED
  BY <1>3, <1>4

\* openssl_platform_init.c:485-551.  The search in the files.
LEMMA LibGood ==
  ASSUME NEW e, IsEnvironment(e), NEW t, IsSearch(t), Good(e, t)
  PROVE  LET r == s_resolve_libcrypto_lib(e, t)
             so == e.so["libcrypto.so"]
         IN  /\ Good(e, r)
             /\ r.version = "none" =>
                  /\ t.version = "none"
                  /\ e.so["libcrypto.so.1.0.0"] # <<>> =>
                       ~Offers(e, "1.0.2", e.so["libcrypto.so.1.0.0"])
                  /\ e.so["libcrypto.so.1.1"] # <<>> =>
                       ~Offers(e, "1.1.1", e.so["libcrypto.so.1.1"])
                  /\ dlsym(so, "OpenSSL_version_num") # Null
                       /\ dlsym(so, "OpenSSL_version_num").kind # "1.1.0" =>
                         ~Offers(e, "LC", so) /\ ~Offers(e, "1.1.1", so)
<1>1. ASSUME NEW f \in File
      PROVE  IsModule(e.so[f]) /\ Single(e.so[f])
  BY <1>1 DEF IsEnvironment, IsModule, Single, In
<1>2. ASSUME NEW u, IsSearch(u), Good(e, u), NEW version \in Versions \ {"none"}, NEW f \in File
      PROVE  LET r == InFile(e, u, version, f)
             IN  /\ IsSearch(r) /\ Good(e, r)
                 /\ r.version = "none" =>
                      u.version = "none" /\ (e.so[f] # <<>> => ~Offers(e, version, e.so[f]))
  <2>1. CASE e.so[f] = <<>>
    BY <1>2, <2>1 DEF InFile
  <2>2. CASE e.so[f] # <<>>
    <3>1. InFile(e, u, version, f) = s_resolve_libcrypto_symbols(e, u, version, e.so[f])
      BY <2>2 DEF InFile
    <3>2. IsModule(e.so[f]) /\ (Single(e.process) => Single(e.so[f]))
      BY <1>1
    <3> QED
      BY <1>2, <3>1, <3>2, SymbolsStep, SymbolsStepGood, Zenon
  <2> QED
    BY <2>1, <2>2
<1> DEFINE so == e.so["libcrypto.so"]
           t102 == InFile(e, t, "1.0.2", "libcrypto.so.1.0.0")
           t111 == InFile(e, t102, "1.1.1", "libcrypto.so.1.1")
           lc == s_resolve_libcrypto_symbols(e, t111, "LC", so)
           last == s_resolve_libcrypto_symbols(e, lc, "1.1.1", so)
           old == s_resolve_libcrypto_symbols(e, t111, "1.0.2", so)
           lib == dlsym(so, "OpenSSL_version_num")
           r == IF t111.version # "none" THEN t111
                ELSE CASE lib = Null -> t111
                       [] lib # Null /\ lib.kind # "1.1.0" -> last
                       [] OTHER -> old
<1>3. s_resolve_libcrypto_lib(e, t) = r
  BY Zenon DEF s_resolve_libcrypto_lib, ByVersion
<1>4. /\ {"1.0.2", "1.1.1", "LC"} \subseteq Versions \ {"none"}
      /\ {"libcrypto.so.1.0.0", "libcrypto.so.1.1", "libcrypto.so"} \subseteq File
  BY DEF Versions, File
<1>5. /\ IsSearch(t102) /\ Good(e, t102)
      /\ t102.version = "none" =>
           /\ t.version = "none"
           /\ e.so["libcrypto.so.1.0.0"] # <<>> => ~Offers(e, "1.0.2", e.so["libcrypto.so.1.0.0"])
  BY <1>2, <1>4, Zenon
<1> HIDE DEF t102
<1>6. /\ IsSearch(t111) /\ Good(e, t111)
      /\ t111.version = "none" =>
           /\ t102.version = "none"
           /\ e.so["libcrypto.so.1.1"] # <<>> => ~Offers(e, "1.1.1", e.so["libcrypto.so.1.1"])
  BY <1>2, <1>4, <1>5, Zenon
<1> HIDE DEF t111
<1>7. IsModule(so) /\ (Single(e.process) => Single(so))
  BY <1>1, <1>4, Zenon
<1> HIDE DEF so
<1>8. IsSearch(lc) /\ Good(e, lc) /\ (lc.version = "none" => ~Offers(e, "LC", so))
  BY <1>4, <1>6, <1>7, SymbolsStep, SymbolsStepGood, Zenon
<1> HIDE DEF lc
<1>9. Good(e, last) /\ (last.version = "none" => lc.version = "none" /\ ~Offers(e, "1.1.1", so))
  BY <1>4, <1>7, <1>8, SymbolsStepGood, Zenon
<1>10. Good(e, old)
  BY <1>4, <1>6, <1>7, SymbolsStepGood, Zenon
<1> HIDE DEF last, old, lib
<1>11. Good(e, r) /\ (r.version = "none" =>
                        /\ t111.version = "none"
                        /\ lib # Null /\ lib.kind # "1.1.0" => last.version = "none")
  BY <1>6, <1>9, <1>10, SMTT(30)
<1> HIDE DEF r
<1> QED
  BY <1>3, <1>5, <1>6, <1>8, <1>9, <1>11, Zenon DEF so, lib

\* Every libcrypto there is is offered to a step of the search.
LEMMA AvailableIsOffered ==
  ASSUME NEW e, IsEnvironment(e), Available(e)
  PROVE  LET so == e.so["libcrypto.so"] IN
         \/ \E version \in Versions \ {"none"} : Offers(e, version, e.process)
         \/ e.so["libcrypto.so.1.0.0"] # <<>> /\ Offers(e, "1.0.2", e.so["libcrypto.so.1.0.0"])
         \/ e.so["libcrypto.so.1.1"] # <<>> /\ Offers(e, "1.1.1", e.so["libcrypto.so.1.1"])
         \/ /\ dlsym(so, "OpenSSL_version_num") # Null
            /\ dlsym(so, "OpenSSL_version_num").kind # "1.1.0"
            /\ Offers(e, "LC", so) \/ Offers(e, "1.1.1", so)
<1> DEFINE so == e.so["libcrypto.so"]
<1>1. /\ IsModule(e.process) /\ e.build \in Versions \ {"none"}
      /\ \A version \in {"1.0.2", "1.1.1", e.build} : version \in Versions \ {"none"}
  BY DEF IsEnvironment, Versions, Kind
<1>2. ASSUME NEW f \in File, e.so[f] # <<>>
      PROVE  /\ IsModule(e.so[f]) /\ DOMAIN e.so[f] = {1} /\ In(e.so[f]) = {e.so[f][1]}
             /\ e.so[f][1] \in Library
  BY <1>2 DEF IsEnvironment, IsModule, In
<1>3. File = {"libcrypto.so.1.0.0", "libcrypto.so.1.1", "libcrypto.so"}
  BY DEF File
<1>4. CASE e.linked = {"hmac", "digest"}
  BY <1>1, <1>4, LinkedOffers, Zenon
<1>5. CASE \E n \in DOMAIN e.process : Serves(e.build, e.process[n].kind)
  <2>1. PICK n \in DOMAIN e.process : Serves(e.build, e.process[n].kind)
    BY <1>5
  <2>2. e.process[n] \in In(e.process)
    BY DEF In
  <2>3. Offers(e, VersionOf(e, e.process[n].kind), e.process)
    BY <1>1, <2>1, <2>2, LibraryOffers, Zenon
  <2>4. VersionOf(e, e.process[n].kind) \in {"1.0.2", "1.1.1", e.build}
    BY DEF VersionOf
  <2> QED
    BY <1>1, <2>3, <2>4, Zenon
<1>6. CASE OpensslBuild(e) /\ e.so["libcrypto.so.1.0.0"] # <<>>
  <2> DEFINE m == e.so["libcrypto.so.1.0.0"]
  <2>1. IsModule(m) /\ m[1] \in In(m) /\ m[1].kind = "1.0.2"
    BY <1>2, <1>3, <1>6 DEF IsEnvironment
  <2>2. Serves(e.build, m[1].kind) /\ VersionOf(e, m[1].kind) = "1.0.2"
    BY <1>6, <2>1, Zenon DEF OpensslBuild, Serves, VersionOf
  <2>3. Offers(e, "1.0.2", m)
    BY <2>1, <2>2, LibraryOffers
  <2> QED
    BY <1>6, <2>3, Zenon
<1>7. CASE OpensslBuild(e) /\ e.so["libcrypto.so.1.1"] # <<>>
  <2> DEFINE m == e.so["libcrypto.so.1.1"]
  <2>1. IsModule(m) /\ m[1] \in In(m) /\ m[1].kind = "1.1.1"
    BY <1>2, <1>3, <1>7 DEF IsEnvironment
  <2>2. Serves(e.build, m[1].kind) /\ VersionOf(e, m[1].kind) = "1.1.1"
    BY <1>7, <2>1, Zenon DEF OpensslBuild, Serves, VersionOf
  <2>3. Offers(e, "1.1.1", m)
    BY <2>1, <2>2, LibraryOffers
  <2> QED
    BY <1>7, <2>3, Zenon
<1>8. CASE e.build # "BORINGSSL" /\ \E n \in DOMAIN so : so[n].kind \notin {"1.0.2", "1.1.0"}
  <2>1. IsModule(so) /\ so[1] \in Library /\ In(so) = {so[1]} /\ so[1].kind \notin {"1.0.2", "1.1.0"}
    <3>1. so # <<>>
      BY <1>8
    <3> QED
      BY <1>2, <1>3, <1>8, <3>1
  <2>2. so[1].kind \in {"1.1.1", "LC", "BORINGSSL"}
    BY <2>1, LibraryIsReal DEF Kind
  <2>3. "OpenSSL_version_num" \in Symbols(so[1].kind)
    BY <2>2 DEF Symbols
  <2>4. dlsym(so, "OpenSSL_version_num") = so[1] /\ so[1] # Null
    BY <2>1, <2>3, DlsymFinds, LibraryIsReal
  <2>5. Serves(e.build, so[1].kind) /\ VersionOf(e, so[1].kind) \in {"LC", "1.1.1"}
    BY <1>8, <2>2, Zenon
       DEF IsEnvironment, Kind, Serves, VersionOf, OpensslBuild, Symbols, Hmac111, Digest111
  <2>6. Offers(e, VersionOf(e, so[1].kind), so)
    BY <2>1, <2>5, LibraryOffers
  <2> QED
    BY <2>1, <2>4, <2>5, <2>6
<1> QED
  BY <1>4, <1>5, <1>6, <1>7, <1>8 DEF Available

\* openssl_platform_init.c:553-592.  The whole search ends with a good pair of tables or, only
\* where there is no libcrypto for the build, with nothing.
LEMMA SearchGood ==
  ASSUME NEW e, IsEnvironment(e), NEW t, IsSearch(t)
  PROVE  LET r == s_resolve_libcrypto(e, t) IN Good(e, r) /\ (r.version = "none" => ~Available(e))
<1> DEFINE m == e.process
           start == [t EXCEPT !.version = "none"]
           lc == s_resolve_libcrypto_symbols(e, start, "LC", m)
           boringssl == s_resolve_libcrypto_symbols(e, lc, "BORINGSSL", m)
           v102 == s_resolve_libcrypto_symbols(e, boringssl, "1.0.2", m)
           v111 == s_resolve_libcrypto_symbols(e, v102, "1.1.1", m)
           lib == s_resolve_libcrypto_lib(e, v111)
           r == IF v111.version # "none" THEN v111 ELSE lib
<1>1. s_resolve_libcrypto(e, t) = r
  BY Zenon DEF s_resolve_libcrypto
<1>2. /\ {"1.0.2", "1.1.1", "LC", "BORINGSSL"} = Versions \ {"none"}
      /\ IsModule(m) /\ (Single(e.process) => Single(m))
  BY DEF Versions, IsEnvironment
<1>3. IsSearch(start) /\ Good(e, start)
  BY DEF IsSearch, Versions, Good
<1> HIDE DEF start
<1>4. IsSearch(lc) /\ Good(e, lc) /\ (lc.version = "none" => ~Offers(e, "LC", m))
  BY <1>2, <1>3, SymbolsStep, SymbolsStepGood, Zenon
<1> HIDE DEF lc
<1>5. IsSearch(boringssl) /\ Good(e, boringssl)
      /\ (boringssl.version = "none" => lc.version = "none" /\ ~Offers(e, "BORINGSSL", m))
  BY <1>2, <1>4, SymbolsStep, SymbolsStepGood, Zenon
<1> HIDE DEF boringssl
<1>6. IsSearch(v102) /\ Good(e, v102)
      /\ (v102.version = "none" => boringssl.version = "none" /\ ~Offers(e, "1.0.2", m))
  BY <1>2, <1>5, SymbolsStep, SymbolsStepGood, Zenon
<1> HIDE DEF v102
<1>7. IsSearch(v111) /\ Good(e, v111)
      /\ (v111.version = "none" => v102.version = "none" /\ ~Offers(e, "1.1.1", m))
  BY <1>2, <1>6, SymbolsStep, SymbolsStepGood, Zenon
<1> HIDE DEF v111
<1>8. Good(e, lib)
  BY <1>7, LibGood, Zenon
<1>9. ASSUME r.version = "none", Available(e) PROVE FALSE
  <2>1. v111.version = "none" /\ lib.version = "none"
    BY <1>9
  <2>2. \A version \in Versions \ {"none"} : ~Offers(e, version, e.process)
    BY <1>2, <1>4, <1>5, <1>6, <1>7, <2>1
  <2> QED
    BY <1>7, <1>9, <2>1, <2>2, LibGood, AvailableIsOffered, Zenon
<1> QED
  BY <1>1, <1>7, <1>8, <1>9, Zenon

-----------------------------------------------------------------------------
(* The inductive invariant. *)

\* A worker is in a section, or waits for one, only between an init and a clean-up.
InsideInUse ==
  \A w \in Worker : section[w] # 0 \/ wants[w] # 0 => InUse /\ build = "1.0.2"

\* Under the library's callback the worker in a section owns its mutex.
OwnerInside ==
  callback = "s_locking_fn" => \A w \in Worker : section[w] # 0 => mutex[section[w]] = w

\* When s_locking_fn is installed, and when there is a callback at all.
CallbackLife ==
  /\ initialized => pc = "idle"
  /\ callback = "s_locking_fn" =>
       /\ build = "1.0.2"
       /\ initialized \/ pc \in {"locks", "mutexes", "id", "initialized", "remove"}
  /\ pc \in {"locks", "mutexes"} => callback = "s_locking_fn"
  /\ pc \in {"callback", "locks", "mutexes", "id"} => build = "1.0.2"
  /\ build = "1.0.2" /\ (initialized \/ pc \in {"id", "initialized"}) => callback # "none"

\* When s_id_fn is installed.
IdLife ==
  id_callback = "s_id_fn" =>
    /\ build = "1.0.2"
    /\ initialized \/ pc \in {"initialized", "remove", "clean_mutexes", "remove_id"}

\* The mutexes are initialised from the first on, and all of them are before a worker starts.
LocksReady ==
  /\ pc = "mutexes" => \A n \in 1..i : mutex[n] # "raw"
  /\ callback = "s_locking_fn" /\ (initialized \/ pc \in {"id", "initialized"}) =>
       \A n \in Lock : mutex[n] # "raw"

\* There is a lock table exactly from AllocateLocks to ReleaseLocks, unless the application
\* has replaced the callback; and no initialisation allocates two.
HasTable == (callback = "s_locking_fn" /\ pc # "locks") \/ pc = "clean_mutexes"
OneTable ==
  /\ HasTable => tables > 0
  /\ ~HasTable => tables = 0 \/ replaced
  /\ tables <= 1 \/ replaced
  /\ tables <= inits
  /\ pc \in {"resolve", "callback", "locks"} => tables < inits

\* What cal.c has registered and the main thread's state last until the clean-up.
KeptUntilCleanUp ==
  /\ registered = {} \/ initialized \/ pc # "idle"
  /\ thread_local = {} \/ build = "LC"
  /\ Main \in thread_local => initialized \/ pc = "local"

\* What the search keeps has its three fields.
FoundShape == found = [version |-> found.version, hmac |-> found.hmac, md |-> found.md]

IInv ==
  /\ LocksWork
  /\ InsideInUse /\ OwnerInside /\ CallbackLife /\ IdLife /\ LocksReady /\ OneTable
  /\ KeptUntilCleanUp /\ FoundShape

\* Most steps leave the workers alone.
LEMMA WorkersAlone ==
  ASSUME IInv, UNCHANGED <<section, wants, fault>>
  PROVE  /\ MutexesReady' /\ MutualExclusion' /\ fault' \in BOOLEAN
         /\ section' \in [Worker -> 0..NumLocks] /\ wants' \in [Worker -> 0..NumLocks]
BY DEF IInv, LocksWork, TypeOK, MutexesReady, MutualExclusion

\* While a call of init or clean_up runs no worker is inside.
LEMMA NobodyInside ==
  ASSUME IInv, ~InUse, UNCHANGED <<section, wants>>
  PROVE  /\ \A w \in Worker : section[w] = 0 /\ wants[w] = 0
         /\ InsideInUse' /\ OwnerInside'
BY DEF IInv, LocksWork, TypeOK, InsideInUse, OwnerInside

\* cal.c:78-88.  A call of init leaves what is there, or begins.
LEMMA InitKeeps ==
  ASSUME IInv, aws_cal_library_init
  PROVE  IInv'
<1>1. MutexesReady' /\ MutualExclusion' /\ fault' \in BOOLEAN
      /\ section' \in [Worker -> 0..NumLocks] /\ wants' \in [Worker -> 0..NumLocks]
  BY WorkersAlone, Zenon DEF aws_cal_library_init, use
<1>2. TypeOK'
  <2>1. registered' \subseteq Registration /\ inits' \in 0..MaxInits
    BY LibraryAssumption DEF IInv, LocksWork, TypeOK, aws_cal_library_init
  <2> QED
    BY <1>1, <2>1 DEF IInv, LocksWork, TypeOK, aws_cal_library_init, locking, use
<1>3. InsideInUse' /\ OwnerInside'
  <2>1. CASE initialized
    BY <2>1 DEF IInv, InsideInUse, OwnerInside, InUse, aws_cal_library_init, locking, use
  <2>2. CASE ~initialized
    BY <2>2, NobodyInside DEF InUse, aws_cal_library_init, use
  <2> QED
    BY <2>1, <2>2
<1>4. CallbackLife' /\ IdLife'
  BY DEF IInv, CallbackLife, IdLife, aws_cal_library_init, locking
<1>5. LocksReady'
  BY DEF IInv, LocksReady, aws_cal_library_init, locking
<1>6. OneTable'
  BY DEF IInv, LocksWork, TypeOK, OneTable, HasTable, aws_cal_library_init, locking
<1>7. KeptUntilCleanUp' /\ FoundShape'
  BY DEF IInv, KeptUntilCleanUp, FoundShape, aws_cal_library_init, use
<1> QED
  BY <1>1, <1>2, <1>3, <1>4, <1>5, <1>6, <1>7 DEF IInv, LocksWork

\* openssl_platform_init.c:621-624.  The callback is installed where there is none.
LEMMA SetLockingCallbackKeeps ==
  ASSUME IInv, SetLockingCallback
  PROVE  IInv'
<1>1. MutexesReady' /\ MutualExclusion' /\ fault' \in BOOLEAN
      /\ section' \in [Worker -> 0..NumLocks] /\ wants' \in [Worker -> 0..NumLocks]
  BY WorkersAlone, Zenon DEF SetLockingCallback, use
<1>2. TypeOK'
  BY <1>1 DEF IInv, LocksWork, TypeOK, SetLockingCallback, use
<1>3. InsideInUse' /\ OwnerInside'
  BY NobodyInside DEF InUse, SetLockingCallback, use
<1>4. CallbackLife' /\ IdLife'
  BY DEF IInv, CallbackLife, IdLife, SetLockingCallback
<1>5. LocksReady'
  BY DEF IInv, CallbackLife, LocksReady, SetLockingCallback
<1>6. OneTable'
  BY DEF IInv, OneTable, HasTable, SetLockingCallback
<1>7. KeptUntilCleanUp' /\ FoundShape'
  BY DEF IInv, KeptUntilCleanUp, FoundShape, SetLockingCallback, use
<1> QED
  BY <1>1, <1>2, <1>3, <1>4, <1>5, <1>6, <1>7 DEF IInv, LocksWork

\* openssl_platform_init.c:625-627.  The one allocation of an initialisation.
LEMMA AllocateLocksKeeps ==
  ASSUME IInv, AllocateLocks
  PROVE  IInv'
<1>1. MutexesReady' /\ MutualExclusion' /\ fault' \in BOOLEAN
      /\ section' \in [Worker -> 0..NumLocks] /\ wants' \in [Worker -> 0..NumLocks]
  BY WorkersAlone, Zenon DEF AllocateLocks, use
<1>2. TypeOK'
  BY <1>1, LibraryAssumption
     DEF IInv, LocksWork, TypeOK, OneTable, HasTable, Lock, AllocateLocks, use
<1>3. InsideInUse' /\ OwnerInside'
  BY NobodyInside DEF InUse, AllocateLocks, use
<1>4. CallbackLife' /\ IdLife'
  BY DEF IInv, CallbackLife, IdLife, AllocateLocks
<1>5. LocksReady'
  BY LibraryAssumption DEF IInv, LocksReady, LocksWork, TypeOK, CallbackLife, Lock, AllocateLocks
<1>6. OneTable'
  BY LibraryAssumption
     DEF IInv, OneTable, HasTable, LocksWork, TypeOK, CallbackLife, AllocateLocks
<1>7. KeptUntilCleanUp' /\ FoundShape'
  BY DEF IInv, KeptUntilCleanUp, FoundShape, AllocateLocks, use
<1> QED
  BY <1>1, <1>2, <1>3, <1>4, <1>5, <1>6, <1>7 DEF IInv, LocksWork

\* openssl_platform_init.c:628-630.  The loop has initialised the mutexes up to i.
LEMMA InitMutexKeeps ==
  ASSUME IInv, InitMutex
  PROVE  IInv'
<1>1. MutexesReady' /\ MutualExclusion' /\ fault' \in BOOLEAN
      /\ section' \in [Worker -> 0..NumLocks] /\ wants' \in [Worker -> 0..NumLocks]
  BY WorkersAlone, Zenon DEF InitMutex, use
<1>2. TypeOK'
  BY <1>1, LibraryAssumption DEF IInv, LocksWork, TypeOK, Lock, InitMutex, use
<1>3. InsideInUse' /\ OwnerInside'
  BY NobodyInside DEF InUse, InitMutex, use
<1>4. CallbackLife' /\ IdLife'
  BY DEF IInv, CallbackLife, IdLife, InitMutex
<1>5. LocksReady'
  BY LibraryAssumption DEF IInv, LocksReady, LocksWork, TypeOK, CallbackLife, Lock, InitMutex
<1>6. OneTable'
  BY DEF IInv, OneTable, HasTable, InitMutex
<1>7. KeptUntilCleanUp' /\ FoundShape'
  BY DEF IInv, KeptUntilCleanUp, FoundShape, InitMutex, use
<1> QED
  BY <1>1, <1>2, <1>3, <1>4, <1>5, <1>6, <1>7 DEF IInv, LocksWork

\* openssl_platform_init.c:634-636.  Likewise the thread identifiers.
LEMMA SetIdCallbackKeeps ==
  ASSUME IInv, SetIdCallback
  PROVE  IInv'
<1>1. MutexesReady' /\ MutualExclusion' /\ fault' \in BOOLEAN
      /\ section' \in [Worker -> 0..NumLocks] /\ wants' \in [Worker -> 0..NumLocks]
  BY WorkersAlone, Zenon DEF SetIdCallback, use
<1>2. TypeOK'
  BY <1>1 DEF IInv, LocksWork, TypeOK, SetIdCallback, use
<1>3. InsideInUse' /\ OwnerInside'
  BY NobodyInside DEF InUse, SetIdCallback, use
<1>4. CallbackLife' /\ IdLife'
  BY DEF IInv, CallbackLife, IdLife, SetIdCallback
<1>5. LocksReady'
  BY DEF IInv, LocksReady, SetIdCallback
<1>6. OneTable'
  BY DEF IInv, OneTable, HasTable, SetIdCallback
<1>7. KeptUntilCleanUp' /\ FoundShape'
  BY DEF IInv, KeptUntilCleanUp, FoundShape, SetIdCallback, use
<1> QED
  BY <1>1, <1>2, <1>3, <1>4, <1>5, <1>6, <1>7 DEF IInv, LocksWork

\* cal.c:86.  All is in place when the flag goes up.
LEMMA InitReturnsKeeps ==
  ASSUME IInv, InitReturns
  PROVE  IInv'
<1>1. MutexesReady' /\ MutualExclusion' /\ fault' \in BOOLEAN
      /\ section' \in [Worker -> 0..NumLocks] /\ wants' \in [Worker -> 0..NumLocks]
  BY WorkersAlone, Zenon DEF InitReturns, use
<1>2. TypeOK'
  BY <1>1 DEF IInv, LocksWork, TypeOK, InitReturns, locking, use
<1>3. InsideInUse' /\ OwnerInside'
  BY NobodyInside DEF InUse, InitReturns, use
<1>4. CallbackLife' /\ IdLife'
  BY DEF IInv, CallbackLife, IdLife, InitReturns, locking
<1>5. LocksReady'
  BY DEF IInv, LocksReady, InitReturns, locking
<1>6. OneTable'
  BY DEF IInv, OneTable, HasTable, InitReturns, locking
<1>7. KeptUntilCleanUp' /\ FoundShape'
  BY DEF IInv, KeptUntilCleanUp, FoundShape, InitReturns, use
<1> QED
  BY <1>1, <1>2, <1>3, <1>4, <1>5, <1>6, <1>7 DEF IInv, LocksWork

\* cal.c:89-91.  No worker is inside when the flag comes down.
LEMMA CleanUpKeeps ==
  ASSUME IInv, aws_cal_library_clean_up
  PROVE  IInv'
<1>1. MutexesReady' /\ MutualExclusion' /\ fault' \in BOOLEAN
      /\ section' \in [Worker -> 0..NumLocks] /\ wants' \in [Worker -> 0..NumLocks]
  BY WorkersAlone, Zenon DEF aws_cal_library_clean_up, use
<1>2. TypeOK'
  BY <1>1, Zenon DEF IInv, LocksWork, TypeOK, aws_cal_library_clean_up, locking, use
<1>3. InsideInUse' /\ OwnerInside'
  BY DEF InsideInUse, OwnerInside, Quiet, aws_cal_library_clean_up, use
<1>4. CallbackLife' /\ IdLife'
  BY DEF IInv, CallbackLife, IdLife, aws_cal_library_clean_up, locking
<1>5. LocksReady'
  BY DEF IInv, LocksReady, aws_cal_library_clean_up, locking
<1>6. OneTable'
  BY DEF IInv, OneTable, HasTable, aws_cal_library_clean_up, locking
<1>7. KeptUntilCleanUp' /\ FoundShape'
  BY DEF IInv, KeptUntilCleanUp, FoundShape, aws_cal_library_clean_up, use
<1> QED
  BY <1>1, <1>2, <1>3, <1>4, <1>5, <1>6, <1>7 DEF IInv, LocksWork

\* openssl_platform_init.c:642-643.  Only its own callback is taken back.
LEMMA RemoveCallbackKeeps ==
  ASSUME IInv, RemoveCallback
  PROVE  IInv'
<1>1. MutexesReady' /\ MutualExclusion' /\ fault' \in BOOLEAN
      /\ section' \in [Worker -> 0..NumLocks] /\ wants' \in [Worker -> 0..NumLocks]
  BY WorkersAlone, Zenon DEF RemoveCallback, use
<1>2. TypeOK'
  BY <1>1, LibraryAssumption DEF IInv, LocksWork, TypeOK, RemoveCallback, use
<1>3. InsideInUse' /\ OwnerInside'
  BY NobodyInside DEF InUse, RemoveCallback, use
<1>4. CallbackLife' /\ IdLife'
  BY DEF IInv, CallbackLife, IdLife, RemoveCallback
<1>5. LocksReady'
  BY DEF IInv, LocksReady, RemoveCallback
<1>6. OneTable'
  BY DEF IInv, OneTable, HasTable, RemoveCallback
<1>7. KeptUntilCleanUp' /\ FoundShape'
  BY DEF IInv, KeptUntilCleanUp, FoundShape, RemoveCallback, use
<1> QED
  BY <1>1, <1>2, <1>3, <1>4, <1>5, <1>6, <1>7 DEF IInv, LocksWork

\* openssl_platform_init.c:645-647.  The callback is gone while the mutexes go.
LEMMA CleanUpMutexKeeps ==
  ASSUME IInv, CleanUpMutex
  PROVE  IInv'
<1>1. MutexesReady' /\ MutualExclusion' /\ fault' \in BOOLEAN
      /\ section' \in [Worker -> 0..NumLocks] /\ wants' \in [Worker -> 0..NumLocks]
  BY WorkersAlone, Zenon DEF CleanUpMutex, use
<1>2. TypeOK'
  BY <1>1, LibraryAssumption DEF IInv, LocksWork, TypeOK, Lock, CleanUpMutex, use
<1>3. InsideInUse' /\ OwnerInside'
  BY NobodyInside DEF InUse, CleanUpMutex, use
<1>4. CallbackLife' /\ IdLife'
  BY DEF IInv, CallbackLife, IdLife, CleanUpMutex
<1>5. LocksReady'
  BY LibraryAssumption DEF IInv, LocksReady, LocksWork, TypeOK, CallbackLife, Lock, CleanUpMutex
<1>6. OneTable'
  BY DEF IInv, OneTable, HasTable, CleanUpMutex
<1>7. KeptUntilCleanUp' /\ FoundShape'
  BY DEF IInv, KeptUntilCleanUp, FoundShape, CleanUpMutex, use
<1> QED
  BY <1>1, <1>2, <1>3, <1>4, <1>5, <1>6, <1>7 DEF IInv, LocksWork

\* openssl_platform_init.c:648.  There is a table to release.
LEMMA ReleaseLocksKeeps ==
  ASSUME IInv, ReleaseLocks
  PROVE  IInv'
<1>1. MutexesReady' /\ MutualExclusion' /\ fault' \in BOOLEAN
      /\ section' \in [Worker -> 0..NumLocks] /\ wants' \in [Worker -> 0..NumLocks]
  BY WorkersAlone, Zenon DEF ReleaseLocks, use
<1>2. TypeOK'
  BY <1>1, LibraryAssumption DEF IInv, LocksWork, TypeOK, OneTable, HasTable, ReleaseLocks, use
<1>3. InsideInUse' /\ OwnerInside'
  BY NobodyInside DEF InUse, ReleaseLocks, use
<1>4. CallbackLife' /\ IdLife'
  BY DEF IInv, CallbackLife, IdLife, ReleaseLocks
<1>5. LocksReady'
  BY DEF IInv, LocksReady, ReleaseLocks
<1>6. OneTable'
  BY LibraryAssumption DEF IInv, OneTable, HasTable, LocksWork, TypeOK, CallbackLife, ReleaseLocks
<1>7. KeptUntilCleanUp' /\ FoundShape'
  BY DEF IInv, KeptUntilCleanUp, FoundShape, ReleaseLocks, use
<1> QED
  BY <1>1, <1>2, <1>3, <1>4, <1>5, <1>6, <1>7 DEF IInv, LocksWork

\* openssl_platform_init.c:651-653.  Only its own, here too.
LEMMA RemoveIdCallbackKeeps ==
  ASSUME IInv, RemoveIdCallback
  PROVE  IInv'
<1>1. MutexesReady' /\ MutualExclusion' /\ fault' \in BOOLEAN
      /\ section' \in [Worker -> 0..NumLocks] /\ wants' \in [Worker -> 0..NumLocks]
  BY WorkersAlone, Zenon DEF RemoveIdCallback, use
<1>2. TypeOK'
  BY <1>1 DEF IInv, LocksWork, TypeOK, RemoveIdCallback, use
<1>3. InsideInUse' /\ OwnerInside'
  BY NobodyInside DEF InUse, RemoveIdCallback, use
<1>4. CallbackLife' /\ IdLife'
  BY DEF IInv, CallbackLife, IdLife, RemoveIdCallback
<1>5. LocksReady'
  BY DEF IInv, LocksReady, RemoveIdCallback
<1>6. OneTable'
  BY DEF IInv, OneTable, HasTable, RemoveIdCallback
<1>7. KeptUntilCleanUp' /\ FoundShape'
  BY DEF IInv, KeptUntilCleanUp, FoundShape, RemoveIdCallback, use
<1> QED
  BY <1>1, <1>2, <1>3, <1>4, <1>5, <1>6, <1>7 DEF IInv, LocksWork

\* cal.c:95-98, openssl_platform_init.c:656-659.  The last of it goes.
LEMMA CleanUpReturnsKeeps ==
  ASSUME IInv, CleanUpReturns
  PROVE  IInv'
<1>1. MutexesReady' /\ MutualExclusion' /\ fault' \in BOOLEAN
      /\ section' \in [Worker -> 0..NumLocks] /\ wants' \in [Worker -> 0..NumLocks]
  BY WorkersAlone, Zenon DEF CleanUpReturns, use
<1>2. TypeOK'
  BY <1>1 DEF IInv, LocksWork, TypeOK, CleanUpReturns, locking
<1>3. InsideInUse' /\ OwnerInside'
  BY NobodyInside DEF InUse, CleanUpReturns
<1>4. CallbackLife' /\ IdLife'
  BY DEF IInv, CallbackLife, IdLife, CleanUpReturns, locking
<1>5. LocksReady'
  BY DEF IInv, LocksReady, CleanUpReturns, locking
<1>6. OneTable'
  BY DEF IInv, OneTable, HasTable, CleanUpReturns, locking
<1>7. KeptUntilCleanUp' /\ FoundShape'
  BY DEF IInv, KeptUntilCleanUp, FoundShape, CleanUpReturns
<1> QED
  BY <1>1, <1>2, <1>3, <1>4, <1>5, <1>6, <1>7 DEF IInv, LocksWork

-----------------------------------------------------------------------------
(* Resolution. *)

\* openssl_platform_init.c:612-614.  The search ends the process or goes on.
LEMMA ResolveKeeps ==
  ASSUME IInv, Resolve
  PROVE  IInv'
<1>1. MutexesReady' /\ MutualExclusion' /\ fault' \in BOOLEAN
      /\ section' \in [Worker -> 0..NumLocks] /\ wants' \in [Worker -> 0..NumLocks]
  BY WorkersAlone, Zenon DEF Resolve, use
<1>2. IsSearch(found) /\ pc = "resolve"
  BY DEF IInv, LocksWork, TypeOK, FoundShape, IsSearch, Versions, Resolve
<1>3. IsSearch(found') /\ \/ pc' = "callback" /\ build = "1.0.2"
                          \/ pc' = "aborted"
                          \/ pc' = "initialized" /\ build # "1.0.2"
  <2>1. CASE build = "native"
    BY <1>2, <2>1 DEF Resolve
  <2>2. CASE build # "native"
    <3>1. PICK e \in Environment : \E t \in {s_resolve_libcrypto(e, found)} :
            /\ found' = t
            /\ env' = [several |-> \E p, q \in DOMAIN e.process : e.process[p] # e.process[q],
                       available |-> Available(e)]
            /\ pc' = CASE t.version = "none" -> "aborted"
                       [] t.version # "none" /\ build = "1.0.2" -> "callback"
                       [] OTHER -> "initialized"
      BY <2>2, Zenon DEF Resolve
    <3>2. found' = s_resolve_libcrypto(e, found)
      BY <3>1, Zenon
    <3>3. IsSearch(found')
      BY <1>2, <3>2, SearchStep, Zenon
    <3>4. pc' = CASE found'.version = "none" -> "aborted"
                  [] found'.version # "none" /\ build = "1.0.2" -> "callback"
                  [] OTHER -> "initialized"
      BY <3>1, Zenon
    <3> QED
      BY <3>3, <3>4
  <2> QED
    BY <2>1, <2>2
<1>4. UNCHANGED <<build, initialized, i, inits, registered, callback, id_callback, tables, mutex,
                  replaced, section, wants, fault, thread_local>>
  BY DEF Resolve, locking, use
<1>5. TypeOK' /\ FoundShape'
  BY <1>1, <1>3, <1>4 DEF IInv, LocksWork, TypeOK, FoundShape, IsSearch, Versions
<1>6. InsideInUse' /\ OwnerInside'
  BY <1>2, <1>4, NobodyInside DEF InUse
<1>7. CallbackLife' /\ IdLife' /\ LocksReady' /\ OneTable' /\ KeptUntilCleanUp'
  BY <1>2, <1>3, <1>4
     DEF IInv, CallbackLife, IdLife, LocksReady, OneTable, HasTable, KeptUntilCleanUp
<1> QED
  BY <1>1, <1>5, <1>6, <1>7 DEF IInv, LocksWork

-----------------------------------------------------------------------------
(* Use. *)

\* A thread gets state of its own from AWS-LC, or gives it up.
LEMMA ThreadLocalKeeps ==
  ASSUME IInv, NEW t \in Worker \cup {Main}, UseLibrary(t) \/ aws_cal_thread_clean_up(t)
  PROVE  IInv'
<1>1. UNCHANGED <<build, linked, machine, found, env, locking, section, wants, fault>>
  BY DEF UseLibrary, aws_cal_thread_clean_up
<1>2. thread_local' \subseteq Worker \cup {Main} /\ InUse /\ (thread_local' = {} \/ build = "LC")
  BY DEF IInv, LocksWork, TypeOK, KeptUntilCleanUp, UseLibrary, aws_cal_thread_clean_up
<1>3. LocksWork'
  BY <1>1, <1>2
     DEF IInv, LocksWork, TypeOK, MutexesReady, MutualExclusion, machine, locking
<1>4. InsideInUse' /\ OwnerInside' /\ CallbackLife' /\ IdLife' /\ LocksReady' /\ OneTable'
  BY <1>1 DEF IInv, InsideInUse, OwnerInside, CallbackLife, IdLife, LocksReady, OneTable,
              HasTable, InUse, machine, locking
<1>5. KeptUntilCleanUp' /\ FoundShape'
  BY <1>1, <1>2 DEF IInv, KeptUntilCleanUp, FoundShape, InUse, machine
<1> QED
  BY <1>3, <1>4, <1>5 DEF IInv

\* A worker comes to a lock.
LEMMA EnterKeeps ==
  ASSUME IInv, NEW w \in Worker, NEW n \in Lock, EnterSection(w, n)
  PROVE  IInv'
<1>1. /\ UNCHANGED <<build, linked, machine, found, env, locking, section, fault, thread_local>>
      /\ wants' = [wants EXCEPT ![w] = n] /\ InUse /\ build = "1.0.2"
  BY DEF EnterSection
<1>2. wants' \in [Worker -> 0..NumLocks]
  BY <1>1, LibraryAssumption DEF IInv, LocksWork, TypeOK, Lock
<1>3. LocksWork'
  BY <1>1, <1>2
     DEF IInv, LocksWork, TypeOK, MutexesReady, MutualExclusion, machine, locking
<1>4. InsideInUse'
  BY <1>1, SMTT(30) DEF InsideInUse, InUse, machine
<1>5. OwnerInside' /\ CallbackLife' /\ IdLife' /\ LocksReady' /\ OneTable' /\ KeptUntilCleanUp'
      /\ FoundShape'
  BY <1>1 DEF IInv, OwnerInside, CallbackLife, IdLife, LocksReady, OneTable, HasTable,
              KeptUntilCleanUp, FoundShape, machine, locking
<1> QED
  BY <1>3, <1>4, <1>5 DEF IInv

\* openssl_platform_init.c:594-603.  The worker gets a mutex that is initialised and that
\* no other worker has; or the application's callback lets it in.
LEMMA LockKeeps ==
  ASSUME IInv, NEW w \in Worker, LockSection(w)
  PROVE  IInv'
<1> DEFINE n == wants[w]
<1>1. /\ n \in Lock /\ InUse /\ build = "1.0.2" /\ callback # "none"
      /\ section' = [section EXCEPT ![w] = n] /\ wants' = [wants EXCEPT ![w] = 0]
      /\ UNCHANGED <<build, linked, machine, found, env, callback, id_callback, tables, replaced,
                     thread_local>>
      /\ CallBack(w, TRUE, n)
  <2>1. n # 0 /\ CallBack(w, TRUE, n)
    BY Zenon DEF LockSection
  <2>2. n \in Lock /\ InUse /\ build = "1.0.2"
    BY <2>1, LibraryAssumption DEF IInv, LocksWork, TypeOK, InsideInUse, Lock
  <2>3. callback # "none"
    BY <2>2 DEF IInv, CallbackLife, InUse
  <2> QED
    BY <2>1, <2>2, <2>3, Zenon DEF LockSection
<1> HIDE DEF n
<1>2. section' \in [Worker -> 0..NumLocks] /\ wants' \in [Worker -> 0..NumLocks]
  BY <1>1, LibraryAssumption DEF IInv, LocksWork, TypeOK, Lock
<1>3. /\ mutex' \in [Lock -> {"raw", "free"} \cup Worker] /\ fault' = FALSE
      /\ \A v \in Worker : section[v] # n
      /\ callback = "s_locking_fn" => mutex[n] # "raw" /\ mutex' = [mutex EXCEPT ![n] = w]
  <2>1. CASE callback = "s_locking_fn"
    <3>1. /\ mutex[n] = "free" /\ mutex' = [mutex EXCEPT ![n] = w]
          /\ fault' = (fault \/ mutex[n] = "raw")
      BY <1>1, <2>1 DEF CallBack, s_locking_fn, aws_mutex_lock, IInv, LocksReady, InUse
    <3>2. \A v \in Worker : section[v] # n
      <4> SUFFICES ASSUME NEW v \in Worker, section[v] = n PROVE FALSE
        OBVIOUS
      <4>1. mutex[n] = v
        BY <1>1, <2>1, LibraryAssumption DEF IInv, OwnerInside, Lock
      <4> QED
        BY <3>1, <4>1, LibraryAssumption
    <3>3. fault' = FALSE
      BY <3>1, Zenon DEF IInv, LocksWork, MutexesReady
    <3> QED
      BY <1>1, <2>1, <3>1, <3>2, <3>3 DEF IInv, LocksWork, TypeOK
  <2>2. CASE callback = "app"
    BY <1>1, <2>2 DEF CallBack, IInv, LocksWork, TypeOK, MutexesReady
  <2> QED
    BY <1>1, <2>1, <2>2, Zenon DEF IInv, LocksWork, TypeOK
<1>4. LocksWork'
  <2>1. TypeOK'
    <3>1. fault' \in BOOLEAN
      BY <1>3, Zenon
    <3> QED
      BY <1>1, <1>2, <1>3, <3>1 DEF IInv, LocksWork, TypeOK, machine
  <2>2. MutualExclusion'
    BY <1>1, <1>2, <1>3 DEF IInv, LocksWork, TypeOK, MutualExclusion
  <2> QED
    BY <1>3, <2>1, <2>2, SMTT(30) DEF LocksWork, MutexesReady
<1>5. InsideInUse'
  BY <1>1 DEF InsideInUse, InUse, machine
<1>6. OwnerInside'
  <2> SUFFICES ASSUME callback = "s_locking_fn", NEW v \in Worker, section'[v] # 0
               PROVE  mutex'[section'[v]] = v
    BY <1>1 DEF OwnerInside
  <2>1. mutex' = [mutex EXCEPT ![n] = w] /\ mutex \in [Lock -> {"raw", "free"} \cup Worker]
        /\ section \in [Worker -> 0..NumLocks]
    BY <1>3 DEF IInv, LocksWork, TypeOK
  <2>2. CASE v = w
    BY <1>1, <2>1, <2>2
  <2>3. CASE v # w
    BY <1>1, <1>3, <2>1, <2>3 DEF IInv, OwnerInside, Lock
  <2> QED
    BY <2>2, <2>3
<1>7. LocksReady'
  <2>1. pc' = "idle"
    BY <1>1 DEF InUse, machine
  <2> SUFFICES ASSUME callback = "s_locking_fn", NEW m \in Lock PROVE mutex'[m] # "raw"
    BY <1>1, <2>1 DEF LocksReady
  <2>2. mutex[m] # "raw"
    BY <1>1, SMTT(30) DEF IInv, LocksReady, InUse
  <2> QED
    BY <1>1, <1>3, <2>2, LibraryAssumption DEF IInv, LocksWork, TypeOK
<1>8. CallbackLife' /\ IdLife' /\ OneTable' /\ KeptUntilCleanUp' /\ FoundShape'
  BY <1>1 DEF IInv, CallbackLife, IdLife, OneTable, HasTable, KeptUntilCleanUp, FoundShape,
              machine
<1> QED
  BY <1>4, <1>5, <1>6, <1>7, <1>8 DEF IInv

\* openssl_platform_init.c:594-603.  The worker gives back the mutex it owns.
LEMMA LeaveKeeps ==
  ASSUME IInv, NEW w \in Worker, LeaveSection(w)
  PROVE  IInv'
<1> DEFINE n == section[w]
<1>1. /\ n \in Lock /\ InUse /\ build = "1.0.2" /\ callback # "none"
      /\ section' = [section EXCEPT ![w] = 0]
      /\ UNCHANGED <<build, linked, machine, found, env, callback, id_callback, tables, replaced,
                     wants, thread_local>>
      /\ CallBack(w, FALSE, n)
  <2>1. n # 0 /\ CallBack(w, FALSE, n)
    BY Zenon DEF LeaveSection
  <2>2. n \in Lock /\ InUse /\ build = "1.0.2"
    BY <2>1, LibraryAssumption DEF IInv, LocksWork, TypeOK, InsideInUse, Lock
  <2>3. callback # "none"
    BY <2>2 DEF IInv, CallbackLife, InUse
  <2> QED
    BY <2>1, <2>2, <2>3, Zenon DEF LeaveSection
<1>2. \A v \in Worker : v # w => section[v] # n
  BY <1>1, LibraryAssumption DEF IInv, LocksWork, MutualExclusion, Lock
<1>3. callback = "s_locking_fn" => mutex[n] = w
  BY <1>1, LibraryAssumption DEF IInv, OwnerInside, Lock
<1> HIDE DEF n
<1>4. section' \in [Worker -> 0..NumLocks]
  BY <1>1, LibraryAssumption DEF IInv, LocksWork, TypeOK
<1>5. /\ mutex' \in [Lock -> {"raw", "free"} \cup Worker] /\ fault' = FALSE
      /\ callback = "s_locking_fn" => mutex' = [mutex EXCEPT ![n] = "free"]
  <2>1. CASE callback = "s_locking_fn"
    <3>1. mutex' = [mutex EXCEPT ![n] = "free"] /\ fault' = (fault \/ mutex[n] # w)
      BY <1>1, <2>1 DEF CallBack, s_locking_fn, aws_mutex_unlock
    <3>2. fault' = FALSE
      BY <1>3, <2>1, <3>1, Zenon DEF IInv, LocksWork, MutexesReady
    <3> QED
      BY <1>1, <3>1, <3>2 DEF IInv, LocksWork, TypeOK
  <2>2. CASE callback = "app"
    BY <1>1, <2>2 DEF CallBack, IInv, LocksWork, TypeOK, MutexesReady
  <2> QED
    BY <1>1, <2>1, <2>2, Zenon DEF IInv, LocksWork, TypeOK
<1>6. LocksWork'
  <2>1. TypeOK'
    <3>1. fault' \in BOOLEAN
      BY <1>5, Zenon
    <3> QED
      BY <1>1, <1>4, <1>5, <3>1 DEF IInv, LocksWork, TypeOK, machine
  <2>2. MutualExclusion'
    BY <1>1, <1>4 DEF IInv, LocksWork, TypeOK, MutualExclusion
  <2> QED
    BY <1>5, <2>1, <2>2 DEF LocksWork, MutexesReady
<1>7. InsideInUse'
  BY <1>1 DEF InsideInUse, InUse, machine
<1>8. OwnerInside'
  <2> SUFFICES ASSUME callback = "s_locking_fn", NEW v \in Worker, section'[v] # 0
               PROVE  mutex'[section'[v]] = v
    BY <1>1 DEF OwnerInside
  <2>1. mutex' = [mutex EXCEPT ![n] = "free"] /\ mutex \in [Lock -> {"raw", "free"} \cup Worker]
        /\ section \in [Worker -> 0..NumLocks]
    BY <1>5 DEF IInv, LocksWork, TypeOK
  <2>2. v # w /\ section'[v] = section[v]
    BY <1>1, <2>1
  <2>3. section[v] # n /\ section[v] \in Lock
    BY <1>2, <2>1, <2>2, LibraryAssumption DEF Lock
  <2>4. mutex[section[v]] = v
    BY <2>2 DEF IInv, OwnerInside
  <2> QED
    BY <2>1, <2>2, <2>3, <2>4
<1>9. LocksReady'
  <2>1. pc' = "idle"
    BY <1>1 DEF InUse, machine
  <2> SUFFICES ASSUME callback = "s_locking_fn", NEW m \in Lock PROVE mutex'[m] # "raw"
    BY <1>1, <2>1 DEF LocksReady
  <2>2. mutex[m] # "raw"
    BY <1>1, SMTT(30) DEF IInv, LocksReady, InUse
  <2> QED
    BY <1>1, <1>5, <2>2 DEF IInv, LocksWork, TypeOK
<1>10. CallbackLife' /\ IdLife' /\ OneTable' /\ KeptUntilCleanUp' /\ FoundShape'
  BY <1>1 DEF IInv, CallbackLife, IdLife, OneTable, HasTable, KeptUntilCleanUp, FoundShape,
              machine
<1> QED
  BY <1>6, <1>7, <1>8, <1>9, <1>10 DEF IInv

\* The application sets its callbacks, perhaps over the library's, or takes them back.
LEMMA AppKeeps ==
  ASSUME IInv, AppCallbacks
  PROVE  IInv'
<1>1. /\ pc = "idle" /\ Quiet /\ build = "1.0.2"
      /\ UNCHANGED <<build, linked, machine, found, env, tables, mutex, section, wants, fault,
                     thread_local>>
      /\ \/ callback' = "app" /\ id_callback' = "app"
         \/ callback' = "none" /\ id_callback' = "none" /\ ~initialized
      /\ \/ replaced' = replaced /\ callback # "s_locking_fn"
         \/ replaced' = TRUE
  <2>1. replaced \in BOOLEAN
    BY DEF IInv, LocksWork, TypeOK
  <2>2. \/ replaced' = (replaced \/ callback = "s_locking_fn")
        \/ replaced' = replaced /\ callback = "app"
    BY DEF AppCallbacks
  <2>3. CASE callback = "s_locking_fn"
    <3>1. replaced' = TRUE
      BY <2>2, <2>3, Zenon
    <3> QED
      BY <2>3, <3>1 DEF AppCallbacks, use
  <2>4. CASE callback # "s_locking_fn"
    <3>1. replaced' = replaced
      BY <2>1, <2>2, <2>4, Zenon
    <3> QED
      BY <2>4, <3>1 DEF AppCallbacks, use
  <2> QED
    BY <2>3, <2>4, Zenon
<1>2. MutexesReady' /\ MutualExclusion' /\ fault' \in BOOLEAN
      /\ section' \in [Worker -> 0..NumLocks] /\ wants' \in [Worker -> 0..NumLocks]
  BY <1>1, WorkersAlone
<1>3. replaced' \in BOOLEAN
  BY <1>1, Zenon DEF IInv, LocksWork, TypeOK
<1>4. TypeOK'
  BY <1>1, <1>2, <1>3, SMTT(30) DEF IInv, LocksWork, TypeOK, machine
<1>5. InsideInUse' /\ OwnerInside'
  BY <1>1, SMTT(30) DEF InsideInUse, OwnerInside, Quiet
<1>6. CallbackLife' /\ IdLife' /\ LocksReady' /\ KeptUntilCleanUp' /\ FoundShape'
  BY <1>1 DEF IInv, CallbackLife, IdLife, LocksReady, KeptUntilCleanUp, FoundShape, machine
<1>7. OneTable'
  BY <1>1, SMTT(30) DEF IInv, OneTable, HasTable, machine
<1> QED
  BY <1>2, <1>4, <1>5, <1>6, <1>7 DEF IInv, LocksWork

-----------------------------------------------------------------------------
(* The theorems. *)

\* The invariant holds at first.
LEMMA InitInv == Init => IInv
<1> SUFFICES ASSUME Init PROVE IInv
  OBVIOUS
<1>1. initialized \in BOOLEAN /\ replaced \in BOOLEAN /\ fault \in BOOLEAN
  BY Zenon DEF Init
<1>2. LocksWork
  BY <1>1, LibraryAssumption
     DEF Init, LocksWork, TypeOK, MutexesReady, MutualExclusion, Nothing
<1> QED
  BY <1>2, LibraryAssumption
     DEF Init, IInv, InsideInUse, OwnerInside, CallbackLife, IdLife, LocksReady, OneTable,
         HasTable, KeptUntilCleanUp, FoundShape, Nothing

\* Every step of the main thread, the workers and the application keeps the invariant.
LEMMA NextKeeps == IInv /\ [Next]_vars => IInv'
<1> SUFFICES ASSUME IInv, [Next]_vars PROVE IInv'
  OBVIOUS
<1>1. CASE aws_cal_library_init \/ aws_cal_library_clean_up
  BY <1>1, InitKeeps, CleanUpKeeps
<1>2. CASE MainStep
  BY <1>2, ResolveKeeps, SetLockingCallbackKeeps, AllocateLocksKeeps, InitMutexKeeps,
     SetIdCallbackKeeps, InitReturnsKeeps, RemoveCallbackKeeps, CleanUpMutexKeeps,
     ReleaseLocksKeeps, RemoveIdCallbackKeeps, CleanUpReturnsKeeps DEF MainStep
<1>3. CASE AppCallbacks
  BY <1>3, AppKeeps
<1>4. ASSUME NEW t \in Worker \cup {Main}, UseLibrary(t) \/ aws_cal_thread_clean_up(t)
      PROVE  IInv'
  BY <1>4, ThreadLocalKeeps
<1>5. ASSUME NEW w \in Worker,
             LockSection(w) \/ LeaveSection(w) \/ \E n \in Lock : EnterSection(w, n)
      PROVE  IInv'
  BY <1>5, LockKeeps, LeaveKeeps, EnterKeeps, SMTT(30)
<1>6. CASE UNCHANGED vars
  <2>1. LocksWork'
    BY <1>6 DEF IInv, LocksWork, TypeOK, MutexesReady, MutualExclusion, vars, machine, locking, use
  <2> QED
    BY <1>6, <2>1, SMTT(30)
       DEF IInv, InsideInUse, OwnerInside, CallbackLife, IdLife, LocksReady, OneTable, HasTable,
           KeptUntilCleanUp, FoundShape, InUse, vars, machine, locking, use
<1> QED
  BY <1>1, <1>2, <1>3, <1>4, <1>5, <1>6 DEF Next

\* The invariant holds in every reachable state.
THEOREM Inductive == Spec => []IInv
<1>1. Init => IInv
  BY InitInv
<1>2. IInv /\ [Next]_vars => IInv'
  BY NextKeeps
<1> QED
  BY <1>1, <1>2, PTL DEF Spec

\* openssl_platform_init.c:594-632.  Whenever OpenSSL 1.0.2 calls back, the mutex is there and
\* is unlocked by its owner, and no two workers are in sections of one lock: for any number of
\* locks, workers, initialisations and clean-ups.
THEOREM LocksAlwaysWork == Spec => []LocksWork
<1>1. IInv => LocksWork
  BY DEF IInv
<1> QED
  BY <1>1, Inductive, PTL

\* cal.c:89-99.  A clean-up takes back the registrations, both callbacks, the lock table and
\* the thread's state, after any number of initialisations and whatever callbacks the
\* application has set, unless it replaced the library's: then the table stays.
THEOREM CleanUpIsComplete == Spec => []NothingLeftBehind
<1>1. IInv => NothingLeftBehind
  BY SMTT(30) DEF IInv, CallbackLife, IdLife, OneTable, HasTable, KeptUntilCleanUp, NothingLeftBehind
<1> QED
  BY <1>1, Inductive, PTL

-----------------------------------------------------------------------------
(* What was found stays until the next initialisation. *)

\* The flag is up, or a call of init is past the search.
Settled == initialized \/ pc \in {"callback", "locks", "mutexes", "id", "initialized"}

\* What the search has found, under what it has found it.
FoundGood ==
  /\ found.hmac.version = found.version /\ found.md.version = found.version
  /\ ~env.several => OneLibrary(found.hmac) /\ OneLibrary(found.md)
  /\ CompleteDigest(found.md)
  /\ CompleteHmac(IF build = "LC" /\ found.hmac.init = Null /\ found.hmac.new.at # "linked"
                  THEN [found.hmac EXCEPT !.init = Own] ELSE found.hmac)

\* The build is what it was, the tables are good once the search is over, and the process is
\* aborted only with reason.
Determined ==
  /\ build \in Builds /\ linked \in SUBSET {"hmac", "digest"}
  /\ build # "native" /\ Settled => FoundGood
  /\ AbortsOnlyWithout

\* The environments of the model are those of the lemmas.
LEMMA EnvironmentIs ==
  ASSUME build \in Builds \ {"native"}, linked \in SUBSET {"hmac", "digest"}, NEW e \in Environment
  PROVE  /\ IsEnvironment(e) /\ e.build = build
         /\ ~(\E p, q \in DOMAIN e.process : e.process[p] # e.process[q]) => Single(e.process)
<1> DEFINE Process == {<<>>} \cup {<<Pointer("process", k)>> : k \in Kinds}
              \cup {<<Pointer("process", p[1]), Pointer("process", p[2])>> : p \in Kinds \X Kinds}
           A == Libraries102("libcrypto.so.1.0.0")
           B == Libraries111("libcrypto.so.1.1")
           C == {<<>>} \cup {<<Pointer("libcrypto.so", k)>> : k \in Files}
           So(a, b, c) == [f \in {"libcrypto.so.1.0.0", "libcrypto.so.1.1", "libcrypto.so"} |->
             CASE f = "libcrypto.so.1.0.0" -> a [] f = "libcrypto.so.1.1" -> b [] OTHER -> c]
           Sos == {So(a, b, c) : a \in A, b \in B, c \in C}
<1>0. e \in [build : {build}, linked : {linked}, process : Process, so : Sos]
  BY DEF Environment
<1> HIDE DEF Process, A, B, C, So, Sos
<1>1. e.build = build /\ e.linked = linked /\ e.process \in Process /\ e.so \in Sos
  BY <1>0
<1>2. build \in Kind \ {"1.1.0"} /\ Kinds \subseteq Kind /\ Files \subseteq Kind
  BY LibraryAssumption, SMTT(30) DEF Kind
<1>3. \A k \in Kind : \A at \in File \cup {"process"} : Pointer(at, k) \in Library /\ Pointer(at, k).kind = k
  BY SMTT(30) DEF Library, Pointer
<1>4. IsModule(e.process)
  BY <1>1, <1>2, <1>3, SMTT(30) DEF IsModule, Process
<1>5. PICK a \in A, b \in B, c \in C : e.so = So(a, b, c)
  BY <1>1 DEF Sos
<1>6. /\ e.so["libcrypto.so.1.0.0"] = a /\ e.so["libcrypto.so.1.1"] = b /\ e.so["libcrypto.so"] = c
  BY <1>5, SMTT(30) DEF So
<1>7. /\ a = <<>> \/ a = <<Pointer("libcrypto.so.1.0.0", "1.0.2")>>
      /\ b = <<>> \/ b = <<Pointer("libcrypto.so.1.1", "1.1.1")>>
      /\ c = <<>> \/ \E k \in Files : c = <<Pointer("libcrypto.so", k)>>
  BY SMTT(30) DEF A, B, C, Libraries102, Libraries111
<1>8. \A f \in File : e.so[f] = <<>> \/ \E p \in Library : e.so[f] = <<p>>
  <2>1. "1.0.2" \in Kind /\ "1.1.1" \in Kind /\ Files \subseteq Kind
    BY <1>2, SMTT(30) DEF Kind
  <2>2. /\ a = <<>> \/ \E p \in Library : a = <<p>>
        /\ b = <<>> \/ \E p \in Library : b = <<p>>
        /\ c = <<>> \/ \E p \in Library : c = <<p>>
    BY <1>3, <1>7, <2>1, SMTT(30) DEF File
  <2> QED
    BY <1>6, <2>2 DEF File
<1>9. /\ \A j \in DOMAIN a : a[j].kind = "1.0.2"
      /\ \A j \in DOMAIN b : b[j].kind = "1.1.1"
  BY <1>7, SMTT(30) DEF Pointer
<1>10. IsEnvironment(e)
  BY <1>1, <1>2, <1>4, <1>6, <1>8, <1>9, SMTT(30) DEF IsEnvironment
<1>11. ~(\E p, q \in DOMAIN e.process : e.process[p] # e.process[q]) => Single(e.process)
  BY DEF Single, In
<1> QED
  BY <1>1, <1>10, <1>11, Zenon

\* openssl_platform_init.c:594-614.  After the search the tables are good, or the process is
\* aborted with reason.
LEMMA ResolveDetermines ==
  ASSUME IInv, Determined, Resolve
  PROVE  Determined'
<1>1. IsSearch(found) /\ pc = "resolve" /\ ~initialized
  BY DEF IInv, LocksWork, TypeOK, FoundShape, IsSearch, Versions, Resolve, CallbackLife
<1>2. UNCHANGED <<build, linked, initialized>>
  BY DEF Resolve
<1>3. CASE build = "native"
  BY <1>1, <1>2, <1>3 DEF Determined, Resolve, AbortsOnlyWithout
<1>4. CASE build # "native"
  <2>1. PICK e \in Environment : \E t \in {s_resolve_libcrypto(e, found)} :
          /\ found' = t
          /\ env' = [several |-> \E p, q \in DOMAIN e.process : e.process[p] # e.process[q],
                     available |-> Available(e)]
          /\ pc' = CASE t.version = "none" -> "aborted"
                     [] t.version # "none" /\ build = "1.0.2" -> "callback"
                     [] OTHER -> "initialized"
    BY <1>4, Zenon DEF Resolve
  <2>2. /\ found' = s_resolve_libcrypto(e, found)
        /\ pc' = CASE found'.version = "none" -> "aborted"
                   [] found'.version # "none" /\ build = "1.0.2" -> "callback"
                   [] OTHER -> "initialized"
    BY <2>1, Zenon
  <2>3. /\ IsEnvironment(e) /\ e.build = build
        /\ ~(\E p, q \in DOMAIN e.process : e.process[p] # e.process[q]) => Single(e.process)
    BY <1>4, EnvironmentIs, Zenon DEF Determined
  <2>4. Good(e, found') /\ (found'.version = "none" => ~Available(e))
    BY <1>1, <2>2, <2>3, SearchGood, Zenon
  <2>5. /\ pc' = "aborted" => found'.version = "none"
        /\ pc' \in {"callback", "initialized"} => found'.version # "none"
        /\ pc' \in {"aborted", "callback", "initialized"}
    BY <2>2
  <2>6. (~env'.several => Single(e.process)) /\ (~Available(e) => ~env'.available)
    BY <2>1, <2>3
  <2>7. Settled' => FoundGood'
    <3>1. SUFFICES ASSUME Settled' PROVE FoundGood'
      OBVIOUS
    <3>2. found'.version # "none"
      BY <1>1, <1>2, <2>5, <3>1 DEF Settled
    <3> QED
      BY <1>2, <2>3, <2>4, <2>6, <3>2, Zenon DEF Good, GoodHmac, GoodDigest, FoundGood
  <2>8. AbortsOnlyWithout'
    BY <2>4, <2>5, <2>6 DEF AbortsOnlyWithout
  <2> QED
    BY <1>2, <2>7, <2>8 DEF Determined
<1> QED
  BY <1>3, <1>4

\* No other step touches what was found, or comes past the search without it.
LEMMA OthersKeepFound ==
  ASSUME IInv, Determined, UNCHANGED <<build, linked, found, env>>,
         Settled' => Settled, pc' = "aborted" => pc = "aborted"
  PROVE  Determined'
BY DEF Determined, FoundGood, AbortsOnlyWithout

\* And so it is after every step.
LEMMA NextDetermines == IInv /\ Determined /\ [Next]_vars => Determined'
<1> SUFFICES ASSUME IInv, Determined, [Next]_vars PROVE Determined'
  OBVIOUS
<1>0. initialized => pc = "idle"
  BY SMTT(30) DEF IInv, CallbackLife
<1>1. CASE aws_cal_library_init \/ aws_cal_library_clean_up
  BY <1>0, <1>1, OthersKeepFound DEF aws_cal_library_init, aws_cal_library_clean_up, Settled
<1>2. CASE Resolve
  BY <1>2, ResolveDetermines, SMTT(30)
<1>3. CASE SetLockingCallback \/ AllocateLocks \/ InitMutex \/ SetIdCallback \/ InitReturns
  BY <1>0, <1>3, OthersKeepFound, SMTT(30)
     DEF SetLockingCallback, AllocateLocks, InitMutex, SetIdCallback, InitReturns, Settled
<1>4. CASE RemoveCallback \/ CleanUpMutex \/ ReleaseLocks \/ RemoveIdCallback \/ CleanUpReturns
  BY <1>0, <1>4, OthersKeepFound, SMTT(30)
     DEF RemoveCallback, CleanUpMutex, ReleaseLocks, RemoveIdCallback, CleanUpReturns, Settled
<1>5. CASE \/ AppCallbacks
           \/ \E t \in Worker \cup {Main} : UseLibrary(t) \/ aws_cal_thread_clean_up(t)
           \/ \E w \in Worker :
                LockSection(w) \/ LeaveSection(w) \/ \E n \in Lock : EnterSection(w, n)
           \/ UNCHANGED vars
  <2>1. UNCHANGED <<build, linked, machine, found, env>>
    BY <1>5, Zenon DEF AppCallbacks, UseLibrary, aws_cal_thread_clean_up, LockSection, LeaveSection,
                EnterSection, vars
  <2> QED
    BY <2>1, OthersKeepFound, SMTT(30) DEF machine, Settled
<1> QED
  BY <1>1, <1>2, <1>3, <1>4, <1>5 DEF Next, MainStep

\* openssl_platform_init.c:473-614.  Wherever there is a libcrypto that serves the build, the
\* search ends with two tables that are complete, of one version and, if the dynamic linker
\* has one libcrypto to answer from, of one library; and so they stay while the library is in
\* use: for at most two libraries in the process and any in the files, over any number of
\* initialisations, whatever earlier searches left in the tables.
THEOREM AlwaysResolved == Spec => []Resolved
<1>1. Init => Determined
  BY DEF Init, Determined, Settled, AbortsOnlyWithout
<1>2. IInv /\ Determined /\ [Next]_vars => Determined'
  BY NextDetermines
<1>3. Determined => Resolved
  BY DEF Determined, Settled, FoundGood, Resolved, TablesCoherent, TablesComplete, InUse
<1> QED
  BY <1>1, <1>2, <1>3, Inductive, PTL DEF Spec
=============================================================================
