---------------------------- MODULE MCProviders ----------------------------
EXTENDS Providers

MCProvider == <<"env", "shared", "static">>
MCEnvValues ==
  [v \in Var |->
     CASE v = "AWS_ACCESS_KEY_ID" -> {"", "i1"}
       [] v = "AWS_ACCESS_KEY" -> {"i2"}
       [] v = "AWS_SECRET_ACCESS_KEY" -> {""}
       [] v = "AWS_SECRET_KEY" -> {"", "s2"}
       [] v = "HOME" -> {"", "h"}
       [] v = "USERPROFILE" -> {"", "g"}
       [] v = "AWS_PROFILE" -> {"", "prod"}]
MCHome == {"h", "g"}
MCSection == {"", "default", "prod"}
MCKey == {"access_key", "secret_key", "[a"}

Of(shape, name, key, value) == [shape |-> shape, name |-> name, key |-> key, value |-> value]
Head_(name) == Of("header", name, "[a", "")
Put(key, value) == Of("assign", "", key, value)
Other(shape) == Of(shape, "", "[a", "b]")

MCText == {
  <<Head_("default"), Put("access_key", "i3"), Put("secret_key", "s3"),
    Head_("prod"), Put("access_key", "i4"), Other("both"), Put("secret_key", "s4")>>,
  <<Put("access_key", "i5"), Head_("default"), Put("access_key", ""), Other("comment"),
    Put("secret_key", "s5"), Put("access_key", "i6")>>,
  <<Head_("prod"), Put("access_key", ""), Put("secret_key", ""), Other("bad")>> }
MCStatic == {[id |-> "", secret |-> ""], [id |-> "i7", secret |-> "s7"]}
=============================================================================
