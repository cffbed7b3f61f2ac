----------------------------- MODULE JsonServer -----------------------------
(* The two controllers of example/feign, which offer the same resources of *)
(* a JSON server by FetchService and by feign clients: the calls that an   *)
(* endpoint makes, with the resource that its route names.                 *)
EXTENDS Fetch, FeignExample

CONSTANTS Service,   \* the config of FetchModule
          Arguments, \* ids, and what is posted
          Posted

Resource(name) == [path |-> <<Lit(name)>>, query |-> {}, fields |-> Nothing]
ItemOf(name, id) == [path |-> <<Lit(name), Lit(id)>>, query |-> {}, fields |-> Nothing]
Filtered(name, field, value) ==
  [path |-> <<Lit(name)>>, query |-> {<<field, value>>}, fields |-> Nothing]
Carrying(target, data) == [target EXCEPT !.fields = data]

ByFetch(id, method, target) ==
  LET call == FetchExampleService(id, Posted)[method]
  IN Verb(Service, call.method, call.path, call.body, call.options, target)

FetchExampleController(id) ==
  {ByFetch(id, "getAllUsers", Resource("users")),
   ByFetch(id, "getUserById", ItemOf("users", id)),
   ByFetch(id, "createUser", Carrying(Resource("users"), Posted)),
   ByFetch(id, "updateUser", Carrying(ItemOf("users", id), Posted)),
   ByFetch(id, "patchUser", Carrying(ItemOf("users", id), Posted)),
   ByFetch(id, "deleteUser", ItemOf("users", id)),
   ByFetch(id, "getAllPosts", Resource("posts")),
   ByFetch(id, "getPostsByUser", Filtered("posts", "userId", id)),
   ByFetch(id, "getPostById", ItemOf("posts", id)),
   ByFetch(id, "createPost", Carrying(Resource("posts"), Posted)),
   ByFetch(id, "updatePost", Carrying(ItemOf("posts", id), Posted)),
   ByFetch(id, "deletePost", ItemOf("posts", id)),
   ByFetch(id, "getCommentsByPost", Filtered("comments", "postId", id)),
   ByFetch(id, "createComment", Carrying(Resource("comments"), Posted)),
   ByFetch(id, "getUserWithCustomTimeout", ItemOf("users", id)),
   ByFetch(id, "getRawResponse", Resource("users"))}

ByFeign(class, method, args, target) ==
  LET declared == class.methods[method]
  IN FeignInvocation(Metadata(class.decorators)["FEIGN_CLIENT"],
                     Metadata(declared.decorators)["FEIGN_METHOD"], declared.params, args, target)

FeignExampleController(id) ==
  LET user == UserFeignClient  post == PostFeignClient  comment == CommentFeignClient
      key == [id |-> id]
      By1(name) == SetMetadata(name, {id})
  IN {ByFeign(user, "findAll", <<>>, Resource("users")),
      ByFeign(user, "findById", <<key>>, ItemOf("users", id)),
      ByFeign(user, "findByRole", <<By1("role")>>, Filtered("users", "role", id)),
      ByFeign(user, "create", <<Posted>>, Carrying(Resource("users"), Posted)),
      ByFeign(user, "update", <<key, Posted>>, Carrying(ItemOf("users", id), Posted)),
      ByFeign(user, "patch", <<key, Posted>>, Carrying(ItemOf("users", id), Posted)),
      ByFeign(user, "remove", <<key>>, ItemOf("users", id)),
      ByFeign(post, "findAll", <<>>, Resource("posts")),
      ByFeign(post, "findByUser", <<By1("userId")>>, Filtered("posts", "userId", id)),
      ByFeign(post, "findById", <<key>>, ItemOf("posts", id)),
      ByFeign(post, "create", <<Posted>>, Carrying(Resource("posts"), Posted)),
      ByFeign(post, "update", <<key, Posted>>, Carrying(ItemOf("posts", id), Posted)),
      ByFeign(post, "remove", <<key>>, ItemOf("posts", id)),
      ByFeign(comment, "findByPost", <<By1("postId")>>, Filtered("comments", "postId", id)),
      ByFeign(comment, "create", <<Posted>>, Carrying(Resource("comments"), Posted))}
=============================================================================
