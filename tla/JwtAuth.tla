------------------------------ MODULE JwtAuth -------------------------------
(***************************************************************************)
(* shared/jwt_auth: who a request comes from, for both services.           *)
(***************************************************************************)
EXTENDS Integers

\* Validation::default(), in seconds.
Leeway == 60

\* jsonwebtoken::decode::<Claims>: signed with the key by one of the allowed
\* algorithms, not expired for longer than the leeway, and with the claims the struct asks for.
Decodes(token, auth, now) ==
  /\ token.jwt
  /\ token.algorithm \in auth.algorithms
  /\ token.key = auth.key
  /\ token.exp + Leeway >= now

\* parse_authorization_header: the users a header stands for (none or one).
\* The header has no token when nothing follows the first seven characters.
ParseAuthorizationHeader(headers, auth, now) ==
  {[id |-> h.token.sub, roles |-> h.token.roles] :
     h \in {h \in headers : /\ h.legal
                            /\ h.type = "Bearer"
                            /\ Decodes(h.token, auth, now)}}

RequireAllRoles(user, roles) == roles \subseteq user.roles

-----------------------------------------------------------------------------
(* The unit tests of require_all_roles.rs *)

LOCAL user(roles) == [id |-> 1, roles |-> roles]

require_roles_user_has_role ==
  RequireAllRoles(user({"first_other", "required_role", "second_other"}), {"required_role"})

require_roles_user_does_not_have_role ==
  ~RequireAllRoles(user({"first_other", "second_other"}), {"missing_role"})

-----------------------------------------------------------------------------
(* The unit tests of jwt_auth_layer.rs: a header is let in or it is not *)

LOCAL now == 100

LOCAL some_secret == [algorithms |-> {"HS256"}, key |-> "some secret"]

LOCAL good == [jwt |-> TRUE, algorithm |-> "HS256", key |-> "some secret", exp |-> 109,
               sub |-> 1, roles |-> {"first_other", "second_other"}]

LOCAL Bearer(token) == {[legal |-> TRUE, type |-> "Bearer", token |-> token]}

LOCAL Admitted(headers) == ParseAuthorizationHeader(headers, some_secret, now)

missing_authorization_header == Admitted({}) = {}

invalid_authorization_header == Admitted({[legal |-> FALSE, type |-> "Bearer", token |-> good]}) = {}

authorization_type_not_bearer == Admitted({[legal |-> TRUE, type |-> "NotBearer", token |-> good]}) = {}

invalid_token == Admitted(Bearer([good EXCEPT !.jwt = FALSE])) = {}

expired_token == Admitted(Bearer([good EXCEPT !.exp = 1])) = {}

invalid_signature == Admitted(Bearer([good EXCEPT !.key = "Wrong key"])) = {}

correct_request_extension == Admitted(Bearer(good)) = {[id |-> 1, roles |-> good.roles]}

\* Every test of jwt_auth passes on the model.
ASSUME JwtAuthTestsPass ==
  /\ require_roles_user_has_role
  /\ require_roles_user_does_not_have_role
  /\ missing_authorization_header
  /\ invalid_authorization_header
  /\ authorization_type_not_bearer
  /\ invalid_token
  /\ expired_token
  /\ invalid_signature
  /\ correct_request_extension
=============================================================================
