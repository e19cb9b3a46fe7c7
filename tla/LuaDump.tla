------------------------------ MODULE LuaDump ------------------------------
(***************************************************************************)
(* Precompiled chunks: lua-5.1/ldump.c, lundump.c and the reading of a     *)
(* stream in lzio.c.                                                       *)
(*                                                                         *)
(* A file is the sequence of the blocks written, each <<kind, value>>; a   *)
(* block of no bytes is none.  A load is [n, err, v]: the blocks read, if  *)
(* an error was raised (the rest is then not read), and the value.  The    *)
(* debug information is one block.                                         *)
(***************************************************************************)
EXTENDS LuaCheck

Concat(ss) == FoldLeft(LAMBDA x, y : x \o y, <<>>, <<>> \o ss)

DumpConstant(v) == IF v = NIL THEN <<<<"char", "nil">>>>
                   ELSE <<<<"char", v[1]>>, <<v[1], v[2]>>>>
DumpConstants(f) ==
  <<<<"int", Len(f.k)>>>> \o Concat([i \in DOMAIN f.k |-> DumpConstant(f.k[i])])
DumpCode(f) ==
  <<<<"int", Len(f.code)>>>> \o [i \in DOMAIN f.code |-> <<"ins", f.code[i]>>]
RECURSIVE DumpFunction(_)
DumpFunction(f) ==
  <<<<"char", f.nups>>, <<"char", f.numparams>>, <<"char", f.vararg>>,
    <<"char", f.maxstack>>>> \o DumpCode(f) \o DumpConstants(f)
    \o <<<<"int", Len(f.p)>>>> \o Concat([i \in DOMAIN f.p |-> DumpFunction(f.p[i])])
    \o <<<<"debug", f.ok>>>>
luaU_dump(f, host) == <<<<"header", host>>>> \o DumpFunction(f)
-----------------------------------------------------------------------------
\* LoadBlock: the next block of the file, "unexpected end" when there is none.
LoadBlock(S, file) ==
  IF S.err \/ S.n = Len(file) THEN [S EXCEPT !.err = TRUE, !.v = <<"", 0>>]
  ELSE [S EXCEPT !.n = @ + 1, !.v = file[S.n + 1]]

\* As many elements as the block in front of them says.
LoadVector(S0, file, Element(_, _)) ==
  LET S == LoadBlock(S0, file)
      add(r, i) == LET x == Element(r, file) IN [x EXCEPT !.v = Append(r.v, x.v)]
  IN  FoldLeft(add, [S EXCEPT !.v = <<>>], [i \in 1..S.v[2] |-> i])

LoadInstruction(S0, file) == LET S == LoadBlock(S0, file) IN [S EXCEPT !.v = S.v[2]]
\* Slip: the value of a boolean constant is taken for its presence.
SlipLoadConstant(S0, file) ==
  LET t == LoadBlock(S0, file)
      S == LoadBlock(t, file)
  IN  CASE t.err -> t
        [] t.v[2] = "nil" -> [t EXCEPT !.v = NIL]
        [] t.v[2] = "bool" -> [S EXCEPT !.v = Bool(TRUE)]
        [] OTHER -> [S EXCEPT !.v = <<t.v[2], S.v[2]>>]
LoadConstant(S0, file) ==
  LET t == LoadBlock(S0, file)
      S == LoadBlock(t, file)
  IN  IF t.err THEN t ELSE IF t.v[2] = "nil" THEN [t EXCEPT !.v = NIL]
      ELSE [S EXCEPT !.v = <<t.v[2], S.v[2]>>]

\* A function that fails the check of its code is an error.
RECURSIVE LoadFunction(_, _)
LoadFunction(S, file) ==
  LET nups == LoadBlock(S, file)
      numparams == LoadBlock(nups, file)
      vararg == LoadBlock(numparams, file)
      maxstack == LoadBlock(vararg, file)
      code == LoadVector(maxstack, file, LoadInstruction)
      k == LoadVector(code, file, LoadConstant)
      p == LoadVector(k, file, LoadFunction)
      debug == LoadBlock(p, file)
      f == [code |-> code.v, k |-> k.v, p |-> p.v, nups |-> nups.v[2],
            numparams |-> numparams.v[2], vararg |-> vararg.v[2],
            maxstack |-> maxstack.v[2], ok |-> debug.v[2]]
  IN  IF debug.err THEN [debug EXCEPT !.v = 0]
      ELSE [debug EXCEPT !.v = f, !.err = ~luaG_checkcode(f)]

luaU_undump(file, host) ==
  LET S == LoadBlock([n |-> 0, err |-> FALSE, v |-> 0], file)
  IN  IF S.err \/ S.v[2] # host THEN [S EXCEPT !.err = TRUE]
      ELSE LoadFunction(S, file)
=============================================================================
