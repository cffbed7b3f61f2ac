---------------------------- MODULE FeignExample ----------------------------
(* The classes of example/feign that call a JSON server: three declarative *)
(* clients and a service that uses FetchService itself.                    *)
EXTENDS Decorators

Declared(method, path, params) ==
  [params |-> params] @@ Method(<<HttpMethod(method, path)>>, <<>>)
Id == <<Param("id")>>

UserFeignClient ==
  Class("UserFeignClient", <<FeignClient([name |-> "jsonServer", path |-> <<Lit("users")>>])>>, Nothing,
    [findAll |-> Declared("GET", <<>>, <<>>),
     findById |-> Declared("GET", Id, <<"params">>),
     findByRole |-> Declared("GET", <<>>, <<"queries">>),
     create |-> Declared("POST", <<>>, <<"body">>),
     update |-> Declared("PUT", Id, <<"params", "body">>),
     patch |-> Declared("PATCH", Id, <<"params", "body">>),
     remove |-> Declared("DELETE", Id, <<"params">>)])

PostFeignClient ==
  Class("PostFeignClient", <<FeignClient([name |-> "jsonServer", path |-> <<Lit("posts")>>])>>, Nothing,
    [findAll |-> Declared("GET", <<>>, <<>>),
     findById |-> Declared("GET", Id, <<"params">>),
     findByUser |-> Declared("GET", <<>>, <<"queries">>),
     create |-> Declared("POST", <<>>, <<"body">>),
     update |-> Declared("PATCH", Id, <<"params", "body">>),
     remove |-> Declared("DELETE", Id, <<"params">>)])

CommentFeignClient ==
  Class("CommentFeignClient", <<FeignClient([name |-> "jsonServer", path |-> <<Lit("comments")>>])>>, Nothing,
    [findByPost |-> Declared("GET", <<>>, <<"queries">>),
     create |-> Declared("POST", <<>>, <<"body">>)])

(* FetchExampleService: what each method passes to FetchService. *)
Call(method, path, body, options) ==
  [method |-> method, path |-> path, body |-> body, options |-> options]
Json(data) == [kind |-> "object", fields |-> data]
Empty == [kind |-> "none", fields |-> Nothing]
By(name, id) == [queries |-> SetMetadata(name, {id})]

FetchExampleService(id, data) ==
  LET users == <<Lit("users")>>  user == <<Lit("users"), Lit(id)>>
      posts == <<Lit("posts")>>  post == <<Lit("posts"), Lit(id)>>
      comments == <<Lit("comments")>>
  IN [getAllUsers |-> Call("GET", users, Empty, Nothing),
      getUserById |-> Call("GET", user, Empty, Nothing),
      createUser |-> Call("POST", users, Json(data), Nothing),
      updateUser |-> Call("PUT", user, Json(data), Nothing),
      patchUser |-> Call("PATCH", user, Json(data), Nothing),
      deleteUser |-> Call("DELETE", user, Empty, Nothing),
      getAllPosts |-> Call("GET", posts, Empty, Nothing),
      getPostById |-> Call("GET", post, Empty, Nothing),
      getPostsByUser |-> Call("GET", posts, Empty, By("userId", id)),
      createPost |-> Call("POST", posts, Json(data), Nothing),
      updatePost |-> Call("PATCH", post, Json(data), Nothing),
      deletePost |-> Call("DELETE", post, Empty, Nothing),
      getCommentsByPost |-> Call("GET", comments, Empty, By("postId", id)),
      createComment |-> Call("POST", comments, Json(data), Nothing),
      getUserWithCustomTimeout |->
        Call("GET", user, Empty, [timeoutMs |-> 10000, retryCount |-> 5,
                                  headers |-> SetMetadata("x-custom-header", "custom-value")]),
      getRawResponse |-> Call("GET", users, Empty, [rawResponse |-> TRUE])]
=============================================================================
